---------------------------- MODULE Spec2Model ----------------------------
(***************************************************************************)
(* A model of the A2A protocol client (A2AClient in onekeySdkUtils.ts):    *)
(* the agent-card cache, the JSON-RPC round trip over axios, and the       *)
(* server-sent-event decoder.  Each part has its own specification over    *)
(* the shared variables; the parts a specification does not exercise stay  *)
(* in their initial state.                                                 *)
(***************************************************************************)
EXTENDS Integers, Sequences, FiniteSets, TLC

VARIABLES
    \* ---- agent-card cache (A2AClient.cachedAgentCard, agentCard, supports)
    cachedAgentCard,   \* this.cachedAgentCard, client by client
    cardCall,          \* per call of agentCard()/supports(): position and result
    fetches,           \* axios.get requests issued for the card, in issue order
    \* ---- single round trips (_makeHttpRequest + _handleJsonResponse)
    hasRandomUUID,     \* typeof crypto.randomUUID === "function"
    now,               \* the latest value Date.now() has returned
    uuidsIssued,       \* number of crypto.randomUUID() results handed out
    rpcCall,           \* per call of a single-round-trip operation
    sentIds,           \* ids of the request envelopes posted, in post order
    \* ---- streaming (sendTaskSubscribe + _handleStreamingResponse)
    sent,              \* the frames the server writes to the event stream
    mode,              \* how the decoder got its Response
    wire,              \* the part of the Response body not yet read
    buffer,            \* let buffer
    lines,             \* the messages of the current chunk not yet handled
    yielded,           \* the events the consumer has received
    handled,           \* what became of each message handled so far
    cuts,              \* the kinds of place a chunk boundary has fallen on
    spc,               \* position of the generator
    streamError,       \* the error the sequence failed with
    reader,            \* const reader: not yet taken, holding its lock, released
    streamCall,        \* the subscribe operation called and the request it posted
    \* ---- OneKeyHardwareWallet (connect, disconnect)
    isConnected,       \* this.isConnected
    address,           \* this.address
    evm_address,       \* this.evm_address
    connectId,         \* this.connectId
    deviceId,          \* this.deviceId
    connectCall,       \* per call of connect(): position and locals
    \* ---- App (handleConfirmTransaction, handleRejectTransaction)
    isWalletConnected, \* useState(false)
    transactionStatus, \* useState({ status: 'idle' })
    confirmCall,       \* per click on Confirm: position of the handler
    \* ---- the agent the client talks to
    server,            \* its tasks, its push configs, the number of its changes
    \* ---- OneKeyHardwareWallet (signAndExecuteTransaction, ...SuiTransaction)
    signCall,          \* the sign operation in progress: position and locals
    \* ---- AIChat (handleExecuteTransaction)
    transaction,       \* useState({ messageId: null, status: 'idle' })
    chatTimer,         \* per click on Execute Transaction: its pending timeout
    \* ---- tradingAnalysis (fetchTradingPairs, analyzeTradingPair)
    tradingPairsCache, \* let tradingPairsCache
    lastFetchTime,     \* let lastFetchTime
    pairsCall,         \* per call of fetchTradingPairs: position and locals
    analysis           \* the pair data analysed and the analysis returned

cardVars   == <<cachedAgentCard, cardCall, fetches>>
rpcVars    == <<hasRandomUUID, now, uuidsIssued, rpcCall, sentIds>>
streamVars == <<sent, mode, wire, buffer, lines, yielded, handled, cuts, spc,
                 streamError, reader, streamCall>>
walletVars == <<isConnected, address, evm_address, connectId, deviceId, connectCall>>
appVars    == <<isWalletConnected, transactionStatus, confirmCall>>
uiVars     == <<walletVars, appVars>>
tradeVars  == <<signCall, transaction, chatTimer, tradingPairsCache, lastFetchTime,
                 pairsCall, analysis>>
vars       == <<cardVars, rpcVars, streamVars, uiVars, server, tradeVars>>

-----------------------------------------------------------------------------
(* Bounds *)

MaxCardCalls == 3

-----------------------------------------------------------------------------
(* Errors.  A message is the sequence of the pieces it is concatenated     *)
(* from, so that a prefixed message differs from the message it prefixes.  *)

InternalError == -32603

NoData == [kind |-> "undefined", of |-> "none"]

RpcError(code, message, data) ==
    [name |-> "RpcError", code |-> code, message |-> message, data |-> data]

NoError == [name |-> "none", code |-> 0, message |-> <<>>, data |-> NoData]

-----------------------------------------------------------------------------
(* The agent card                                                          *)

NullCard == [kind |-> "null", caps |-> FALSE, streaming |-> FALSE, push |-> FALSE]

\* Bodies a server may answer GET /agent-card with under a 2xx status.
CardBodies ==
    { [kind |-> "card", caps |-> TRUE, streaming |-> s, push |-> p] :
          s \in BOOLEAN, p \in BOOLEAN }
    \cup { [kind |-> "card", caps |-> FALSE, streaming |-> FALSE, push |-> FALSE] }
    \cup { [kind |-> "falsy", caps |-> FALSE, streaming |-> FALSE, push |-> FALSE] }

\* if (this.cachedAgentCard)
Truthy(card) == card.kind = "card"

\* The A2AClient instances of the page.
Clients == {"A", "B"}

\* private cachedAgentCard: AgentCard | null = null, in each instance.
NoCards == [k \in Clients |-> NullCard]

CardCallIds == 1..MaxCardCalls

Capabilities == {"streaming", "pushNotifications"}

IdleCardCall ==
    [pc |-> "idle", client |-> "none", op |-> "none", cap |-> "none", fetch |-> 0,
     card |-> NullCard, bool |-> FALSE, error |-> NoError]

\* The switch with its two cases interchanged.
SupportsCardSwapped(card, cap) ==
    CASE cap = "streaming"         -> card.caps /\ card.push
      [] cap = "pushNotifications" -> card.caps /\ card.streaming
      [] OTHER                     -> FALSE

\* The switch of supports(): !!card.capabilities?.streaming etc.
SupportsCard(card, cap) ==
    CASE cap = "streaming"         -> card.caps /\ card.streaming
      [] cap = "pushNotifications" -> card.caps /\ card.push
      [] OTHER                     -> FALSE

\* How a call that has its card (or its failure) completes: agentCard()
\* returns or throws, supports() maps either to a boolean.
CardCallDone(call, ok, card, error) ==
    IF call.op = "agentCard"
    THEN [call EXCEPT !.pc = IF ok THEN "returned" ELSE "thrown",
                      !.card = card, !.error = error]
    ELSE [call EXCEPT !.pc = "returned", !.card = card,
                      !.bool = IF ok THEN SupportsCard(card, call.cap) ELSE FALSE]

\* The synchronous part of agentCard(), entered directly or from supports():
\* return the cached card, or issue the GET and suspend on it.
AgentCardCall(c, this, op, cap) ==
    /\ cardCall[c].pc = "idle"
    /\ c > 1 => cardCall[c - 1].pc # "idle"
    /\ LET call == [IdleCardCall EXCEPT !.client = this, !.op = op, !.cap = cap] IN
       IF Truthy(cachedAgentCard[this])
       THEN /\ cardCall' = [cardCall EXCEPT ![c] =
                               CardCallDone(call, TRUE, cachedAgentCard[this], NoError)]
            /\ UNCHANGED <<cachedAgentCard, fetches>>
       ELSE /\ fetches' = Append(fetches, [by |-> c, outcome |-> "pending"])
            /\ cardCall' = [cardCall EXCEPT ![c] =
                               [call EXCEPT !.pc = "awaiting",
                                            !.fetch = Len(fetches) + 1]]
            /\ UNCHANGED cachedAgentCard
    /\ UNCHANGED <<rpcVars, streamVars, uiVars, server, tradeVars>>

\* A cache that all the instances share.
AgentCardFetchedShared(c, body) ==
    /\ cardCall[c].pc = "awaiting"
    /\ cachedAgentCard' = [k \in Clients |-> body]
    /\ fetches' = [fetches EXCEPT ![cardCall[c].fetch].outcome = "ok"]
    /\ cardCall' = [cardCall EXCEPT ![c] =
                       CardCallDone(cardCall[c], TRUE, body, NoError)]
    /\ UNCHANGED <<rpcVars, streamVars, uiVars, server, tradeVars>>

\* axios.get resolved: cache response.data and return it.
AgentCardFetched(c, body) ==
    /\ cardCall[c].pc = "awaiting"
    /\ cachedAgentCard' = [cachedAgentCard EXCEPT ![cardCall[c].client] = body]
    /\ fetches' = [fetches EXCEPT ![cardCall[c].fetch].outcome = "ok"]
    /\ cardCall' = [cardCall EXCEPT ![c] =
                       CardCallDone(cardCall[c], TRUE, body, NoError)]
    /\ UNCHANGED <<rpcVars, streamVars, uiVars, server, tradeVars>>

\* A failure that leaves an empty card object in the cache.
AgentCardFetchFailedCaching(c) ==
    /\ cardCall[c].pc = "awaiting"
    /\ cachedAgentCard' =
           [cachedAgentCard EXCEPT ![cardCall[c].client] =
               [kind |-> "card", caps |-> FALSE, streaming |-> FALSE, push |-> FALSE]]
    /\ fetches' = [fetches EXCEPT ![cardCall[c].fetch].outcome = "failed"]
    /\ cardCall' = [cardCall EXCEPT ![c] =
                       CardCallDone(cardCall[c], FALSE, NullCard,
                           RpcError(InternalError,
                                    <<"Could not retrieve agent card: ", "cause">>,
                                    [kind |-> "cause", of |-> "axios.get"]))]
    /\ UNCHANGED <<rpcVars, streamVars, uiVars, server, tradeVars>>

\* axios.get rejected (no response, or a non-2xx status).
AgentCardFetchFailed(c) ==
    /\ cardCall[c].pc = "awaiting"
    /\ fetches' = [fetches EXCEPT ![cardCall[c].fetch].outcome = "failed"]
    /\ cardCall' = [cardCall EXCEPT ![c] =
                       CardCallDone(cardCall[c], FALSE, NullCard,
                           RpcError(InternalError,
                                    <<"Could not retrieve agent card: ", "cause">>,
                                    [kind |-> "cause", of |-> "axios.get"]))]
    /\ UNCHANGED <<cachedAgentCard, rpcVars, streamVars, uiVars, server, tradeVars>>

\* The cards the agents of SpecClients serve.
ClientBodies ==
    { [kind |-> "card", caps |-> TRUE, streaming |-> s, push |-> FALSE] :
          s \in BOOLEAN }

\* Two instances in use side by side.
NextClients ==
    \/ \E c \in CardCallIds, this \in Clients :
           AgentCardCall(c, this, "agentCard", "none")
    \/ \E c \in CardCallIds, body \in ClientBodies : AgentCardFetched(c, body)
    \/ \E c \in CardCallIds : AgentCardFetchFailed(c)

NextCard ==
    \/ \E c \in CardCallIds : AgentCardCall(c, "A", "agentCard", "none")
    \/ \E c \in CardCallIds, cap \in Capabilities :
           AgentCardCall(c, "A", "supports", cap)
    \/ \E c \in CardCallIds, body \in CardBodies : AgentCardFetched(c, body)
    \/ \E c \in CardCallIds : AgentCardFetchFailed(c)

-----------------------------------------------------------------------------
(* Single round trips: _generateRequestId, _makeHttpRequest,               *)
(* _handleJsonResponse and the public operations built from them.          *)

MaxRpcCalls == 2

RpcCallIds == 1..MaxRpcCalls

\* The operations with cancelTask posting the method of getTask.
OpMethodCancelAsGet ==
    [sendTask                |-> "tasks/send",
     getTask                 |-> "tasks/get",
     cancelTask              |-> "tasks/get",
     setTaskPushNotification |-> "tasks/pushNotification/set",
     getTaskPushNotification |-> "tasks/pushNotification/get"]

\* The single-round-trip operations and the method each one posts.
OpMethod ==
    [sendTask                |-> "tasks/send",
     getTask                 |-> "tasks/get",
     cancelTask              |-> "tasks/cancel",
     setTaskPushNotification |-> "tasks/pushNotification/set",
     getTaskPushNotification |-> "tasks/pushNotification/get"]

SingleOps == DOMAIN OpMethod

\* The two subscribe operations and the method each one posts.
StreamOpMethod ==
    [sendTaskSubscribe |-> "tasks/sendSubscribe",
     resubscribeTask   |-> "tasks/resubscribe"]

StreamOps == DOMAIN StreamOpMethod

\* acceptHeader: the default of _makeHttpRequest, which the single
\* operations leave alone, and the value the subscribe operations pass.
DefaultAccept == "application/json"
StreamAccept  == "text/event-stream"

Params == {"t1"}

\* The params the callers of SpecRequests pass.
RequestParams == {"t1", "t2"}

\* Identifiers: a random UUID, a Date.now() timestamp, or (in a response)
\* none at all or one the client never sent.
NoId    == [src |-> "absent", n |-> 0]
OtherId == [src |-> "other", n |-> 0]

\* What Date.now() may return: the millisecond of the previous reading or,
\* once an envelope has been posted, the next one.
ClockReadings == IF sentIds = <<>> THEN {now} ELSE {now, now + 1}

\* crypto.randomUUID() when there is one, else Date.now(), which returns t.
\* The k-th UUID is a value no earlier call of randomUUID returned.
GenerateRequestId(t) ==
    IF hasRandomUUID
    THEN [src |-> "uuid", n |-> uuidsIssued + 1]
    ELSE [src |-> "time", n |-> t]

\* The envelope with params replaced by the task id "t1".
RequestBodyFixedParams(requestId, method, params) ==
    [jsonrpc |-> "2.0", id |-> requestId, method |-> method, params |-> "t1"]

\* The envelope with the id member left out.
RequestBodyWithoutId(requestId, method, params) ==
    [jsonrpc |-> "2.0", id |-> [src |-> "absent", n |-> 0], method |-> method,
     params |-> params]

\* const requestBody = { jsonrpc: "2.0", id: requestId, method, params }
RequestBody(requestId, method, params) ==
    [jsonrpc |-> "2.0", id |-> requestId, method |-> method, params |-> params]

NoBody == [jsonrpc |-> "none", id |-> NoId, method |-> "none", params |-> "none"]

\* The headers of axios.post.
Headers(acceptHeader) ==
    [contentType |-> "application/json", accept |-> acceptHeader]

NoHeaders == [contentType |-> "none", accept |-> "none"]

\* What a subscribe operation was called with and, once its generator has
\* started, the request it posted.
NoRequest    == [body |-> NoBody, headers |-> NoHeaders]
NoStreamCall == [op |-> "none", params |-> "none", request |-> NoRequest]

(* JSON values as the client sees them.  A result or an error member is    *)
(* absent, null or a value.                                                *)

ResultAbsent == [kind |-> "absent", v |-> "none"]
ResultNull   == [kind |-> "null", v |-> "none"]
TaskT1       == [kind |-> "object", v |-> "Task{id:t1,status:submitted}"]

ErrorAbsent == [kind |-> "absent", code |-> 0, message |-> "", data |-> NoData]
TaskNotFound ==
    [kind |-> "object", code |-> -32000, message |-> "task not found", data |-> NoData]
Busy ==
    [kind |-> "object", code |-> -32001, message |-> "busy",
     data |-> [kind |-> "value", of |-> "retry later"]]

\* response.data after axios has parsed the body: an object with the
\* members of a response envelope, or the body text when it is not JSON.
Envelope(jsonrpc, id, result, error) ==
    [type |-> "object", jsonrpc |-> jsonrpc, id |-> id, result |-> result,
     error |-> error]
TextData  == [type |-> "string", jsonrpc |-> "absent", id |-> NoId,
              result |-> ResultAbsent, error |-> ErrorAbsent]
EmptyData == [type |-> "empty", jsonrpc |-> "absent", id |-> NoId,
              result |-> ResultAbsent, error |-> ErrorAbsent]

NoResponse == [kind |-> "noResponse", status |-> 0, data |-> EmptyData]
Http(status, data) == [kind |-> "http", status |-> status, data |-> data]
NoReply == [kind |-> "none", status |-> 0, data |-> EmptyData]

\* What the network and the server may answer a posted envelope with: no
\* answer at all, a 2xx answer (a result under the id sent or under another
\* id, no result, a null result, an error, another protocol version, a body
\* that is not JSON) or a failure status (with an error body or with a plain
\* text one).
Replies(body) ==
    { NoResponse,
      Http(200, Envelope("2.0", body.id, TaskT1, ErrorAbsent)),
      Http(200, Envelope("2.0", OtherId, TaskT1, ErrorAbsent)),
      Http(200, Envelope("2.0", body.id, ResultAbsent, ErrorAbsent)),
      Http(200, Envelope("2.0", body.id, ResultNull, ErrorAbsent)),
      Http(200, Envelope("2.0", body.id, ResultAbsent, Busy)),
      Http(200, Envelope("1.0", body.id, TaskT1, ErrorAbsent)),
      Http(200, TextData),
      Http(404, Envelope("absent", NoId, ResultAbsent, TaskNotFound)),
      Http(500, TextData) }

\* axios resolves for a 2xx status and rejects otherwise (validateStatus).
AxiosResolves(reply) ==
    reply.kind = "http" /\ reply.status >= 200 /\ reply.status < 300

StatusLine(status) ==
    CASE status = 404 -> "HTTP 404: Not Found"
      [] status = 500 -> "HTTP 500: Internal Server Error"
      [] OTHER        -> "HTTP error"

\* if (networkError.response.data): "" is falsy, everything else here is not.
DataTruthy(data) == data.type # "empty"

\* The catch block of _makeHttpRequest.
NetworkRpcError(reply) ==
    LET cause == [kind |-> "cause", of |-> "networkError"] IN
    IF reply.kind = "http"
    THEN LET data == reply.data
             envelope == /\ DataTruthy(data)
                         /\ data.type = "object"
                         /\ data.error.kind # "absent"
             errorMessage == IF envelope /\ data.error.message # ""
                             THEN data.error.message
                             ELSE StatusLine(reply.status)
             statusCode == IF envelope /\ data.error.code # 0
                           THEN data.error.code
                           ELSE reply.status
         IN  RpcError(statusCode, <<"Network error: ", errorMessage>>, cause)
    ELSE RpcError(InternalError, <<"Network error: ", "networkError.message">>, cause)

\* new Response(JSON.stringify(axiosResponse.data), {status, ...}): the body
\* text is the JSON text of the data, and ok is the 2xx test of Response.
JsonStringify(data) == [json |-> data]
MakeResponse(reply) ==
    [ok |-> (reply.status >= 200 /\ reply.status < 300),
     status |-> reply.status, text |-> JsonStringify(reply.data)]

\* JSON.parse of a text made by JSON.stringify gives the value back.
JsonParse(text) == text.json

\* jsonResponse.result
ResultAsItIs(result) == result

\* null whatever the result
ResultAlwaysNull(result) == ResultNull

\* jsonResponse.result || null
ResultOrNull(result) == IF result.kind = "object" THEN result ELSE ResultNull

\* if (jsonResponse.error): an error object is truthy, null or none is not.
ErrorTruthy(error) == error.kind = "object"

PlainError(message) ==
    [name |-> "Error", code |-> 0, message |-> <<message>>, data |-> NoData]

\* The try block without the test of the version tag.
JsonResponseThrownUnversioned(response) ==
    LET json == JsonParse(response.text) IN
    IF ~response.ok
        THEN PlainError("HTTP error")
    ELSE IF json.type # "object"
        THEN RpcError(InternalError,
                      <<"Invalid JSON-RPC response structure received from server.">>,
                      NoData)
    ELSE IF ErrorTruthy(json.error)
        THEN RpcError(json.error.code, <<json.error.message>>, json.error.data)
    ELSE NoError

\* What the try block of _handleJsonResponse throws (NoError: it returns).
\* In the !response.ok branch the RpcError thrown for an error body is caught
\* by the catch around the parse, so the generic HTTP error is thrown in
\* either case.
JsonResponseThrown(response) ==
    LET json == JsonParse(response.text) IN
    IF ~response.ok
        THEN PlainError("HTTP error")
    ELSE IF json.type # "object" \/ json.jsonrpc # "2.0"
        THEN RpcError(InternalError,
                      <<"Invalid JSON-RPC response structure received from server.">>,
                      NoData)
    ELSE IF ErrorTruthy(json.error)
        THEN RpcError(json.error.code, <<json.error.message>>, json.error.data)
    ELSE NoError

\* _handleJsonResponse: the result payload, or the RpcError it fails with
\* (an RpcError is re-thrown as it is, anything else is wrapped).
HandleJsonResponse(response) ==
    LET thrown == JsonResponseThrown(response) IN
    IF thrown = NoError
    THEN [ok |-> TRUE, result |-> ResultOrNull(JsonParse(response.text).result),
          error |-> NoError]
    ELSE [ok |-> FALSE, result |-> ResultAbsent,
          error |-> IF thrown.name = "RpcError"
                    THEN thrown
                    ELSE RpcError(InternalError,
                                  <<"Failed to process response: ">> \o thrown.message,
                                  [kind |-> "cause", of |-> "error"])]

IdleRpcCall ==
    [pc |-> "idle", op |-> "none", params |-> "none", requestId |-> NoId,
     body |-> NoBody, headers |-> NoHeaders, reply |-> NoReply,
     result |-> ResultAbsent, error |-> NoError, seen |-> 0]

\* A public single-round-trip operation up to its first suspension: the
\* synchronous part of _makeHttpRequest, which ends by posting the envelope.
RpcSend(c, op, params, t) ==
    /\ rpcCall[c].pc = "idle"
    /\ c > 1 => rpcCall[c - 1].pc # "idle"
    /\ t \in ClockReadings
    /\ now' = IF hasRandomUUID THEN now ELSE t
    /\ LET requestId == GenerateRequestId(now')
           body == RequestBody(requestId, OpMethod[op], params)
       IN  /\ rpcCall' = [rpcCall EXCEPT ![c] =
                             [IdleRpcCall EXCEPT !.pc = "awaiting", !.op = op,
                                                 !.params = params,
                                                 !.requestId = requestId,
                                                 !.body = body,
                                                 !.headers = Headers(DefaultAccept)]]
           /\ sentIds' = Append(sentIds, body.id)
    /\ uuidsIssued' = IF hasRandomUUID THEN uuidsIssued + 1 ELSE uuidsIssued
    /\ UNCHANGED <<hasRandomUUID, cardVars, streamVars, uiVars, server, tradeVars>>

\* axios.post resolved: the data is wrapped in a Response, which the
\* operation hands to _handleJsonResponse.
AxiosPostResolved(c, reply) ==
    /\ rpcCall[c].pc = "awaiting"
    /\ reply \in Replies(rpcCall[c].body)
    /\ AxiosResolves(reply)
    /\ LET out == HandleJsonResponse(MakeResponse(reply)) IN
       rpcCall' = [rpcCall EXCEPT ![c] =
                      [@ EXCEPT !.pc = IF out.ok THEN "resolved" ELSE "rejected",
                                !.reply = reply, !.result = out.result,
                                !.error = out.error]]
    /\ UNCHANGED <<hasRandomUUID, now, uuidsIssued, sentIds, cardVars, streamVars, uiVars, server, tradeVars>>

\* A catch block that posts the envelope once more and goes on waiting.
AxiosPostRejectedRetrying(c, reply) ==
    /\ rpcCall[c].pc = "awaiting"
    /\ reply \in Replies(rpcCall[c].body)
    /\ ~AxiosResolves(reply)
    /\ sentIds' = Append(sentIds, rpcCall[c].body.id)
    /\ UNCHANGED <<hasRandomUUID, now, uuidsIssued, rpcCall, cardVars, streamVars, uiVars, server, tradeVars>>

\* axios.post rejected: the catch block of _makeHttpRequest.
AxiosPostRejected(c, reply) ==
    /\ rpcCall[c].pc = "awaiting"
    /\ reply \in Replies(rpcCall[c].body)
    /\ ~AxiosResolves(reply)
    /\ rpcCall' = [rpcCall EXCEPT ![c] =
                      [@ EXCEPT !.pc = "rejected", !.reply = reply,
                                !.error = NetworkRpcError(reply)]]
    /\ UNCHANGED <<hasRandomUUID, now, uuidsIssued, sentIds, cardVars, streamVars, uiVars, server, tradeVars>>

-----------------------------------------------------------------------------
(* An agent behind the client: it keeps the tasks it was sent and the push *)
(* configs it was given, and answers each request from what it holds.      *)

MaxServerChanges == 2

TaskIds == {"t1", "t2"}

\* The statuses the agent may report; "paused" is none of the client's
\* TaskState values.
ServerStatuses == {"submitted", "working", "completed", "paused"}

\* The params of setTaskPushNotification: a task id and a target.
PushConfigs == {"t1:hookA", "t1:hookB", "t2:hookA"}

TaskIdOf(params) ==
    CASE params \in {"t1", "t1:hookA", "t1:hookB"} -> "t1"
      [] OTHER -> "t2"

\* The params each operation is called with.
ServerOps == {"sendTask", "getTask", "setTaskPushNotification",
              "getTaskPushNotification"}
ParamsOf(op) == IF op = "setTaskPushNotification" THEN PushConfigs ELSE TaskIds

\* The JSON of a task and of a push config, as result members.
TaskJson(id, status) ==
    [kind |-> "object", v |-> "Task{id:" \o id \o ",status:" \o status \o "}"]
ConfigJson(config) == [kind |-> "object", v |-> config]

\* jsonrpc is the version tag the agent puts in its envelopes ("absent":
\* it puts none).
NoServer == [tasks |-> [id \in TaskIds |-> "absent"],
             push |-> [id \in TaskIds |-> "none"], changes |-> 0,
             jsonrpc |-> "2.0"]

\* The agent after it handled the envelope body: tasks/send creates the
\* task, tasks/pushNotification/set stores the params it received.
ServerAfter(body) ==
    LET id == TaskIdOf(body.params) IN
    IF body.method = "tasks/send" /\ server.tasks[id] = "absent"
        THEN [server EXCEPT !.tasks[id] = "submitted", !.changes = @ + 1]
    ELSE IF body.method = "tasks/pushNotification/set"
        THEN [server EXCEPT !.push[id] = body.params, !.changes = @ + 1]
    ELSE server

\* The result or the error the agent answers body with.
ServerAnswer(body) ==
    LET id == TaskIdOf(body.params)
        after == ServerAfter(body)
    IN  IF body.method \in {"tasks/send", "tasks/get"}
        THEN IF after.tasks[id] = "absent"
             THEN [result |-> ResultAbsent, error |-> TaskNotFound]
             ELSE [result |-> TaskJson(id, after.tasks[id]), error |-> ErrorAbsent]
        ELSE IF after.push[id] = "none"
             THEN [result |-> ResultNull, error |-> ErrorAbsent]
             ELSE [result |-> ConfigJson(after.push[id]), error |-> ErrorAbsent]

\* The 200 answer to body.
ServerReply(body) ==
    LET a == ServerAnswer(body) IN
    Http(200, Envelope(server.jsonrpc, body.id, a.result, a.error))

\* A round trip that also stores the result it returns in the client.
ServerAnsweredCaching(c) ==
    /\ rpcCall[c].pc = "awaiting"
    /\ LET reply == ServerReply(rpcCall[c].body)
           out == HandleJsonResponse(MakeResponse(reply))
       IN  /\ rpcCall' = [rpcCall EXCEPT ![c] =
                      [@ EXCEPT !.pc = IF out.ok THEN "resolved" ELSE "rejected",
                                !.reply = reply, !.result = out.result,
                                !.error = out.error,
                                !.seen = ServerAfter(rpcCall[c].body).changes]]
           /\ cachedAgentCard' =
                  IF out.ok
                  THEN [cachedAgentCard EXCEPT !["A"] = [NullCard EXCEPT !.kind = "card"]]
                  ELSE cachedAgentCard
    /\ server' = ServerAfter(rpcCall[c].body)
    /\ UNCHANGED <<hasRandomUUID, now, uuidsIssued, sentIds, cardCall, fetches,
                   streamVars, uiVars, tradeVars>>

\* The agent handled the envelope of call c and its 200 answer came back:
\* axios.post resolved, the data is wrapped in a Response and the operation
\* hands it to _handleJsonResponse.
ServerAnswered(c) ==
    /\ rpcCall[c].pc = "awaiting"
    /\ LET reply == ServerReply(rpcCall[c].body)
           out == HandleJsonResponse(MakeResponse(reply))
       IN  rpcCall' = [rpcCall EXCEPT ![c] =
                      [@ EXCEPT !.pc = IF out.ok THEN "resolved" ELSE "rejected",
                                !.reply = reply, !.result = out.result,
                                !.error = out.error,
                                !.seen = ServerAfter(rpcCall[c].body).changes]]
    /\ server' = ServerAfter(rpcCall[c].body)
    /\ UNCHANGED <<hasRandomUUID, now, uuidsIssued, sentIds, cardVars, streamVars,
                   uiVars, tradeVars>>

\* The agent works on a task: its status moves on.
ServerProgress(id, status) ==
    /\ server.changes < MaxServerChanges
    /\ \/ server.tasks[id] = "submitted" /\ status \in {"working", "paused"}
       \/ server.tasks[id] = "working" /\ status \in {"completed", "paused"}
    /\ server' = [server EXCEPT !.tasks[id] = status, !.changes = @ + 1]
    /\ UNCHANGED <<cardVars, rpcVars, streamVars, uiVars, tradeVars>>

NextServer ==
    \/ \E c \in RpcCallIds, op \in ServerOps : \E p \in ParamsOf(op) :
           RpcSend(c, op, p, now)
    \/ \E c \in RpcCallIds : ServerAnswered(c)
    \/ \E id \in TaskIds, status \in ServerStatuses : ServerProgress(id, status)

NextRpc ==
    \/ \E c \in RpcCallIds, op \in SingleOps, p \in Params, t \in ClockReadings :
           RpcSend(c, op, p, t)
    \/ \E c \in RpcCallIds : \E reply \in Replies(rpcCall[c].body) :
           AxiosPostResolved(c, reply)
    \/ \E c \in RpcCallIds : \E reply \in Replies(rpcCall[c].body) :
           AxiosPostRejected(c, reply)

-----------------------------------------------------------------------------
(* Streaming.  A body is a sequence of lexemes: the characters the         *)
(* decoder and JSON.stringify look at (line feed, carriage return, space,  *)
(* quote, backslash) are elements of their own, and a run of other         *)
(* characters is one element, written as the text it stands for.  A chunk  *)
(* boundary may fall between any two elements.                             *)

MaxFrames == 3

LF == "\n"
CR == "\r"
DQ == "\""
BS == "\\"
SP == " "

DataPrefix == <<"data:", SP>>

\* The two halves of {"jsonrpc":"2.0","result":{"status":"working"}} etc.
JHead      == "{\"jsonrpc\":\"2.0\","
JWorking   == "\"result\":{\"status\":\"working\"}}"
JCompleted == "\"result\":{\"status\":\"completed\"}}"
JError     == "\"error\":{\"code\":-32000,\"message\":\"task not found\"}}"
\* A data line that is not JSON.
JBad       == "{oops"
\* The head of an envelope of another protocol version, and the tails of
\* envelopes without result and error and with a null result.
JHeadV1    == "{\"jsonrpc\":\"1.0\","
JNeither   == "\"id\":1}"
JNull      == "\"result\":null}"

ResultJson(status) ==
    <<JHead, IF status = "working" THEN JWorking ELSE JCompleted>>
ErrorJson == <<JHead, JError>>
BadJson   == <<JBad>>

StatusEvent(status) == [kind |-> "object", v |-> status]

VersionJson == <<JHeadV1, JWorking>>
NeitherJson == <<JHead, JNeither>>
NullJson    == <<JHead, JNull>>

FrameNames == {"working", "completed", "error", "bad"}

\* Frames a server that follows the protocol does not send: a result under
\* another version tag, an envelope with neither result nor error, a null
\* result.
OddFrameNames == {"version", "neither", "nullResult"}

FrameJson(name) ==
    CASE name = "working"    -> ResultJson("working")
      [] name = "completed"  -> ResultJson("completed")
      [] name = "error"      -> ErrorJson
      [] name = "version"    -> VersionJson
      [] name = "neither"    -> NeitherJson
      [] name = "nullResult" -> NullJson
      [] OTHER               -> BadJson

\* JSON.parse on the texts that occur: the envelopes parse to their
\* values, every other text (a malformed line, a fragment, two lines run
\* together, an escaped text) is a SyntaxError.
SseParse(text) ==
    CASE text = ResultJson("working") ->
             [ok |-> TRUE,
              value |-> Envelope("2.0", NoId, StatusEvent("working"), ErrorAbsent)]
      [] text = ResultJson("completed") ->
             [ok |-> TRUE,
              value |-> Envelope("2.0", NoId, StatusEvent("completed"), ErrorAbsent)]
      [] text = ErrorJson ->
             [ok |-> TRUE,
              value |-> Envelope("2.0", NoId, ResultAbsent, TaskNotFound)]
      [] text = VersionJson ->
             [ok |-> TRUE,
              value |-> Envelope("1.0", NoId, StatusEvent("working"), ErrorAbsent)]
      [] text = NeitherJson ->
             [ok |-> TRUE,
              value |-> Envelope("2.0", OtherId, ResultAbsent, ErrorAbsent)]
      [] text = NullJson ->
             [ok |-> TRUE,
              value |-> Envelope("2.0", NoId, ResultNull, ErrorAbsent)]
      [] OTHER -> [ok |-> FALSE, value |-> EmptyData]

Eols == {<<LF>>, <<CR, LF>>}

\* One event as the server writes it: the data line and a blank line.
FrameText(name, eol) == DataPrefix \o FrameJson(name) \o eol \o eol

RECURSIVE Payload(_, _)
Payload(frames, eol) ==
    IF frames = <<>> THEN <<>>
    ELSE FrameText(Head(frames), eol) \o Payload(Tail(frames), eol)

\* JSON.stringify of a string: quoted, with every quote, backslash and
\* control character escaped.
EscapeChar(ch) ==
    CASE ch = LF         -> <<BS, "n">>
      [] ch = CR         -> <<BS, "r">>
      [] ch = DQ         -> <<BS, DQ>>
      [] ch = BS         -> <<BS, BS>>
      [] ch = JHead      -> <<"{\\\"jsonrpc\\\":\\\"2.0\\\",">>
      [] ch = JWorking   -> <<"\\\"result\\\":{\\\"status\\\":\\\"working\\\"}}">>
      [] ch = JCompleted -> <<"\\\"result\\\":{\\\"status\\\":\\\"completed\\\"}}">>
      [] ch = JError     ->
             <<"\\\"error\\\":{\\\"code\\\":-32000,\\\"message\\\":\\\"task not found\\\"}}">>
      [] ch = JHeadV1    -> <<"{\\\"jsonrpc\\\":\\\"1.0\\\",">>
      [] ch = JNeither   -> <<"\\\"id\\\":1}">>
      [] ch = JNull      -> <<"\\\"result\\\":null}">>
      [] OTHER           -> <<ch>>

RECURSIVE EscapeAll(_)
EscapeAll(str) ==
    IF str = <<>> THEN <<>> ELSE EscapeChar(Head(str)) \o EscapeAll(Tail(str))

JsonStringifyString(str) == <<DQ>> \o EscapeAll(str) \o <<DQ>>

\* buffer.replace(/\r/g, "")
RemoveCR(str) == SelectSeq(str, LAMBDA ch : ch # CR)

\* .split("\n\n"): the pieces between the non-overlapping delimiters, found
\* left to right; the last piece is what follows the last delimiter.
RECURSIVE SplitFrom(_, _)
SplitFrom(str, i) ==
    IF i >= Len(str) THEN <<str>>
    ELSE IF str[i] = LF /\ str[i + 1] = LF
         THEN <<SubSeq(str, 1, i - 1)>> \o SplitFrom(SubSeq(str, i + 2, Len(str)), 1)
         ELSE SplitFrom(str, i + 1)

Split(str) == SplitFrom(str, 1)

IsSpace(ch) == ch \in {SP, LF, CR, "\t"}

RECURSIVE TrimLeft(_)
TrimLeft(str) ==
    IF str # <<>> /\ IsSpace(Head(str)) THEN TrimLeft(Tail(str)) ELSE str

RECURSIVE TrimRight(_)
TrimRight(str) ==
    IF str # <<>> /\ IsSpace(str[Len(str)])
    THEN TrimRight(SubSeq(str, 1, Len(str) - 1)) ELSE str

Trim(str) == TrimRight(TrimLeft(str))

StartsWith(str, prefix) ==
    Len(str) >= Len(prefix) /\ SubSeq(str, 1, Len(prefix)) = prefix

(* What handling one message comes to: an event is yielded, the message    *)
(* is passed over, or an error leaves the loop.                            *)
Yield(event) ==
    [kind |-> "yield", why |-> "result", event |-> event, error |-> NoError]
Skip(why) ==
    [kind |-> "skip", why |-> why, event |-> ResultAbsent, error |-> NoError]
Throw(error) ==
    [kind |-> "throw", why |-> "thrown", event |-> ResultAbsent, error |-> error]

SyntaxError ==
    [name |-> "SyntaxError", code |-> 0, message |-> <<"Unexpected token">>,
     data |-> NoData]

\* The try body without the test for a null result.
FrameTryBodyYieldingNull(dataLine) ==
    LET parsed == SseParse(dataLine)
        json   == parsed.value
    IN  IF ~parsed.ok
            THEN Throw(SyntaxError)
        ELSE IF json.type # "object" \/ json.jsonrpc # "2.0"
            THEN Skip("invalid structure")
        ELSE IF ErrorTruthy(json.error)
            THEN Throw(RpcError(json.error.code, <<json.error.message>>,
                                json.error.data))
        ELSE IF json.result.kind # "absent"
            THEN Yield(json.result)
        ELSE Skip("neither result nor error")

\* The body of the try around one data line: JSON.parse, the structure
\* check, then the error / result / neither branches.
FrameTryBody(dataLine) ==
    LET parsed == SseParse(dataLine)
        json   == parsed.value
    IN  IF ~parsed.ok
            THEN Throw(SyntaxError)
        ELSE IF json.type # "object" \/ json.jsonrpc # "2.0"
            THEN Skip("invalid structure")
        ELSE IF ErrorTruthy(json.error)
            THEN Throw(RpcError(json.error.code, <<json.error.message>>,
                                json.error.data))
        ELSE IF json.result.kind # "absent"
            THEN IF json.result.kind # "null"
                 THEN Yield(json.result)
                 ELSE Skip("null result")
        ELSE Skip("neither result nor error")

\* A catch that throws on what it caught.
FrameCatchRethrows(thrown) == thrown

\* catch (e) { console.error("Failed to parse SSE data line ...") }: whatever
\* the try body threw is logged and the loop goes on to the next message.
FrameCatch(thrown) ==
    [kind |-> "skip", why |-> "caught", event |-> ResultAbsent,
     error |-> thrown.error]

\* One iteration of for (const message of lines).
HandleMessage(message) ==
    IF StartsWith(message, DataPrefix)
    THEN LET dataLine == Trim(SubSeq(message, Len(DataPrefix) + 1, Len(message))) IN
         IF dataLine # <<>>
         THEN LET tried == FrameTryBody(dataLine) IN
              IF tried.kind = "throw" THEN FrameCatch(tried) ELSE tried
         ELSE Skip("empty data")
    ELSE Skip("not a data line")

\* buffer = value
AppendChunkDroppingBuffer(buf, value) == value

\* buffer += value
AppendChunk(buf, value) == buf \o value

\* The statements after a read, with the buffer keeping everything received.
TakeChunkKeepingFrames(buf, value) ==
    LET whole == RemoveCR(AppendChunk(buf, value))
        pieces == Split(whole)
    IN  [lines  |-> SubSeq(pieces, 1, Len(pieces) - 1),
         buffer |-> whole]

\* The statements after a read: the new messages and the new buffer.
TakeChunk(buf, value) ==
    LET pieces == Split(RemoveCR(AppendChunk(buf, value))) IN
    [lines  |-> SubSeq(pieces, 1, Len(pieces) - 1),
     buffer |-> pieces[Len(pieces)]]

\* The for loop from its current message up to the next suspension: it
\* stops at the first yield, at an error that leaves the loop, or when the
\* messages are used up and the generator reads again.
RECURSIVE RunLoop(_)
RunLoop(ls) ==
    IF ls = <<>> THEN [out |-> <<>>, rest |-> <<>>, at |-> "reading"]
    ELSE LET o == HandleMessage(Head(ls)) IN
         IF o.kind = "yield"
             THEN [out |-> <<o>>, rest |-> Tail(ls), at |-> "suspended"]
         ELSE IF o.kind = "throw"
             THEN [out |-> <<o>>, rest |-> <<>>, at |-> "failed"]
         ELSE LET r == RunLoop(Tail(ls)) IN [r EXCEPT !.out = <<o>> \o @]

\* The loop, giving up the messages that follow an event of a terminal
\* status in the same chunk.
AfterLoopDroppingAfterTerminal(ls, buf) ==
    LET r == RunLoop(ls)
        last == IF r.out = <<>> THEN Skip("none") ELSE r.out[Len(r.out)]
    IN  /\ handled' = handled \o r.out
        /\ lines' = IF r.at = "suspended" /\ last.event.v = "completed"
                     THEN <<>> ELSE r.rest
        /\ spc' = r.at
        /\ yielded' = IF r.at = "suspended" THEN Append(yielded, last.event)
                      ELSE yielded
        /\ streamError' = IF r.at = "failed" THEN last.error ELSE streamError
        /\ reader' = IF r.at = "failed" THEN "released" ELSE reader
        /\ buffer' = buf

\* The state after the loop ran over ls with buffer buf; an error that
\* leaves the loop passes through the outer catch and the finally block,
\* which releases the reader.
AfterLoop(ls, buf) ==
    LET r == RunLoop(ls)
        last == IF r.out = <<>> THEN Skip("none") ELSE r.out[Len(r.out)]
    IN  /\ handled' = handled \o r.out
        /\ lines' = r.rest
        /\ spc' = r.at
        /\ yielded' = IF r.at = "suspended" THEN Append(yielded, last.event)
                      ELSE yielded
        /\ streamError' = IF r.at = "failed" THEN last.error ELSE streamError
        /\ reader' = IF r.at = "failed" THEN "released" ELSE reader
        /\ buffer' = buf

NoCuts == [frame |-> FALSE, delimiter |-> FALSE, crlf |-> FALSE]

\* Where the boundary after the first n characters of str falls: between a
\* carriage return and its line feed, between the two line breaks of a
\* delimiter, or elsewhere inside a frame.
CutsAfter(str, n) ==
    IF n >= Len(str) THEN NoCuts
    ELSE LET last == str[n]
             next == str[n + 1]
         IN  [crlf      |-> last = CR /\ next = LF,
              delimiter |-> last = LF /\ next \in {LF, CR},
              frame     |-> last \notin {LF, CR} /\ next \notin {LF, CR}]

RECURSIVE SeqsUpTo(_, _)
SeqsUpTo(S, n) ==
    IF n = 0 THEN {<<>>}
    ELSE LET shorter == SeqsUpTo(S, n - 1) IN
         shorter \cup {Append(q, x) : q \in shorter, x \in S}

\* The event streams tried: every sequence of up to n of the usual frames,
\* and every run of up to n "working" frames with one of them replaced by an
\* odd frame.
Streams(n) ==
    SeqsUpTo(FrameNames, n)
    \cup { [i \in 1..k |-> IF i = j THEN odd ELSE "working"] :
              k \in 1..n, j \in 1..n, odd \in OddFrameNames }

\* What the server writes to the event stream.
ServerPayload == Payload(sent.frames, sent.eol)

\* The body of the Response _makeHttpRequest builds: axios has read the
\* whole stream, found it is not JSON and kept it as a string, and the
\* Response is made of JSON.stringify(axiosResponse.data).
TransportBody == JsonStringifyString(ServerPayload)

\* The first next() of the generator of sendTaskSubscribe/resubscribeTask:
\* _makeHttpRequest posts the envelope and the generator awaits the answer.
SubscribeFirstNext(t) ==
    /\ mode = "transport"
    /\ spc = "created"
    /\ spc' = "posting"
    /\ t \in ClockReadings
    /\ now' = IF hasRandomUUID THEN now ELSE t
    /\ LET requestId == GenerateRequestId(now')
           body == RequestBody(requestId, StreamOpMethod[streamCall.op],
                               streamCall.params)
       IN  /\ streamCall' = [streamCall EXCEPT
                                !.request = [body |-> body,
                                             headers |-> Headers(StreamAccept)]]
           /\ sentIds' = Append(sentIds, body.id)
    /\ uuidsIssued' = IF hasRandomUUID THEN uuidsIssued + 1 ELSE uuidsIssued
    /\ UNCHANGED <<sent, mode, wire, buffer, lines, yielded, handled, cuts, streamError,
                   reader, hasRandomUUID, rpcCall, cardVars, uiVars, server, tradeVars>>

\* axios.post resolved with a 2xx status: the Response is built and
\* _handleStreamingResponse takes its reader and issues the first read.
SubscribeResponse ==
    /\ mode = "transport"
    /\ spc = "posting"
    /\ AxiosResolves(Http(sent.status, TextData))
    /\ wire' = TransportBody
    /\ spc' = "reading"
    /\ reader' = "locked"
    /\ UNCHANGED <<sent, mode, buffer, lines, yielded, handled, cuts, streamError,
                   streamCall, cardVars, rpcVars, uiVars, server, tradeVars>>

\* axios.post rejected on a failure status: the catch block of
\* _makeHttpRequest throws and the first next() of the generator rejects.
SubscribeRejected ==
    /\ mode = "transport"
    /\ spc = "posting"
    /\ ~AxiosResolves(Http(sent.status, TextData))
    /\ spc' = "failed"
    /\ streamError' = NetworkRpcError(Http(sent.status, TextData))
    /\ UNCHANGED <<sent, mode, wire, buffer, lines, yielded, handled, cuts, reader,
                   streamCall, cardVars, rpcVars, uiVars, server, tradeVars>>

\* The error thrown for a Response that is not ok or has no body.
StreamNotEstablished ==
    [name |-> "Error", code |-> 0,
     message |-> <<"HTTP error ", StatusLine(sent.status),
                   " - Failed to establish stream.">>,
     data |-> NoData]

\* _handleStreamingResponse started on a Response whose body streams the
\* server's payload as it is: a Response that is not ok makes it throw, of
\* any other it takes the reader and issues the first read.
DecoderFirstNext ==
    /\ mode = "direct"
    /\ spc = "created"
    /\ IF AxiosResolves(Http(sent.status, TextData))
       THEN /\ wire' = ServerPayload
            /\ spc' = "reading"
            /\ reader' = "locked"
            /\ UNCHANGED streamError
       ELSE /\ spc' = "failed"
            /\ streamError' = StreamNotEstablished
            /\ UNCHANGED <<wire, reader>>
    /\ UNCHANGED <<sent, mode, buffer, lines, yielded, handled, cuts,
                   streamCall, cardVars, rpcVars, uiVars, server, tradeVars>>

\* reader.read() resolved with the next n characters.  The body of a
\* Response made of a string is one chunk; a body that streams from the
\* network comes in chunks of any size.
StreamRead(n) ==
    /\ spc = "reading"
    /\ n \in 1..Len(wire)
    /\ mode = "transport" => n = Len(wire)
    /\ LET taken == TakeChunk(buffer, SubSeq(wire, 1, n)) IN
       AfterLoop(taken.lines, taken.buffer)
    /\ wire' = SubSeq(wire, n + 1, Len(wire))
    /\ cuts' = LET here == CutsAfter(wire, n) IN
               [frame     |-> cuts.frame \/ here.frame,
                delimiter |-> cuts.delimiter \/ here.delimiter,
                crlf      |-> cuts.crlf \/ here.crlf]
    /\ UNCHANGED <<sent, mode, streamCall, cardVars, rpcVars, uiVars, server, tradeVars>>

\* What reader.read() rejects with when the connection breaks.
ReadError ==
    [name |-> "TypeError", code |-> 0, message |-> <<"network error">>,
     data |-> NoData]

\* reader.read() rejected: the outer catch logs and re-throws the error and
\* the finally block releases the reader.  (A body made of a string does
\* not fail.)
StreamReadFailed ==
    /\ mode = "direct"
    /\ spc = "reading"
    /\ spc' = "failed"
    /\ streamError' = ReadError
    /\ reader' = "released"
    /\ UNCHANGED <<sent, mode, wire, buffer, lines, yielded, handled, cuts,
                   streamCall, cardVars, rpcVars, uiVars, server, tradeVars>>

\* A close that handles what is left in the buffer as one more message.
StreamCloseFlushing ==
    /\ spc = "reading"
    /\ mode = "transport" => wire = <<>>
    /\ spc' = "done"
    /\ reader' = "released"
    /\ LET o == HandleMessage(buffer) IN
       /\ handled' = Append(handled, o)
       /\ yielded' = IF o.kind = "yield" THEN Append(yielded, o.event) ELSE yielded
    /\ UNCHANGED <<sent, mode, wire, buffer, lines, cuts, streamError,
                   streamCall, cardVars, rpcVars, uiVars, server, tradeVars>>

\* reader.read() resolved with done, at the end of the body or, when the
\* connection is closed early, before it: the leftover of the buffer is
\* logged, the loop is left and the finally block releases the reader.
StreamClose ==
    /\ spc = "reading"
    /\ mode = "transport" => wire = <<>>
    /\ spc' = "done"
    /\ reader' = "released"
    /\ UNCHANGED <<sent, mode, wire, buffer, lines, yielded, handled, cuts, streamError,
                   streamCall, cardVars, rpcVars, uiVars, server, tradeVars>>

\* The consumer asks for the next event: the loop resumes after the yield.
ConsumerNext ==
    /\ spc = "suspended"
    /\ AfterLoop(lines, buffer)
    /\ UNCHANGED <<sent, mode, wire, cuts, streamCall, cardVars, rpcVars, uiVars, server, tradeVars>>

\* A return() that does not run the finally block.
ConsumerReturnKeepingLock ==
    /\ spc = "suspended"
    /\ spc' = "returned"
    /\ UNCHANGED <<sent, mode, wire, buffer, lines, yielded, handled, cuts, streamError,
                   reader, streamCall, cardVars, rpcVars, uiVars, server, tradeVars>>

\* The consumer stops (break / return()): the generator returns at the
\* yield it is suspended on and the finally block releases the reader.
ConsumerReturn ==
    /\ spc = "suspended"
    /\ spc' = "returned"
    /\ reader' = "released"
    /\ UNCHANGED <<sent, mode, wire, buffer, lines, yielded, handled, cuts, streamError,
                   streamCall, cardVars, rpcVars, uiVars, server, tradeVars>>

NextStream ==
    \/ \E t \in ClockReadings : SubscribeFirstNext(t)
    \/ SubscribeResponse
    \/ SubscribeRejected
    \/ DecoderFirstNext
    \/ \E n \in 1..Len(wire) : StreamRead(n)
    \/ StreamReadFailed
    \/ StreamClose
    \/ ConsumerNext
    \/ ConsumerReturn

-----------------------------------------------------------------------------
(* The hardware wallet: OneKeyHardwareWallet.connect and disconnect.       *)

MaxConnectCalls == 2

ConnectCallIds == 1..MaxConnectCalls

Null == "null"

\* The fields of the wallet object, and their values after construction.
WalletFields ==
    [isConnected |-> isConnected, address |-> address, evm_address |-> evm_address,
     connectId |-> connectId, deviceId |-> deviceId]

FreshWallet ==
    [isConnected |-> FALSE, address |-> Null, evm_address |-> Null,
     connectId |-> Null, deviceId |-> Null]

\* A call of connect(): its position, const address, and for the record the
\* fields it found when called and whether disconnect() ran since.
IdleConnectCall ==
    [pc |-> "idle", address |-> Null, before |-> FreshWallet, disconnected |-> FALSE]

\* What searchDevices may find: nothing (or a failure, which getDeviceList
\* turns into an empty list), a device, a device that reports no deviceId.
DeviceLists ==
    { <<>>,
      <<[connectId |-> "connect1", deviceId |-> "device1"]>>,
      <<[connectId |-> "connect1", deviceId |-> Null]>> }

\* What suiGetAddress and evmGetAddress may answer with: an address or none.
SuiAddresses == {"0xsui", Null}
EvmAddresses == {"0xevm", Null}

\* connect() up to its first await: getDeviceList() is called.
Connect(c) ==
    /\ connectCall[c].pc = "idle"
    /\ c > 1 => connectCall[c - 1].pc # "idle"
    /\ connectCall' = [connectCall EXCEPT ![c].pc = "devices",
                                          ![c].before = WalletFields]
    /\ UNCHANGED <<isConnected, address, evm_address, connectId, deviceId,
                   appVars, cardVars, rpcVars, streamVars, server, tradeVars>>

\* getDeviceList() resolved: no device throws; else the ids of the first
\* device are stored, and connect() throws when one is missing or goes on
\* to getSuiAddress().
DeviceListResolved(c, devices) ==
    /\ connectCall[c].pc = "devices"
    /\ IF devices = <<>>
       THEN /\ connectCall' = [connectCall EXCEPT ![c].pc = "thrown"]
            /\ UNCHANGED <<connectId, deviceId>>
       ELSE /\ connectId' = devices[1].connectId
            /\ deviceId' = devices[1].deviceId
            /\ connectCall' = [connectCall EXCEPT ![c].pc =
                                   IF connectId' = Null \/ deviceId' = Null
                                   THEN "thrown" ELSE "sui"]
    /\ UNCHANGED <<isConnected, address, evm_address,
                   appVars, cardVars, rpcVars, streamVars, server, tradeVars>>

\* getSuiAddress() resolved: without an address connect() throws, with one
\* it goes on to getEVMAddress().
SuiAddressResolved(c, a) ==
    /\ connectCall[c].pc = "sui"
    /\ connectCall' = [connectCall EXCEPT ![c] =
                           IF a = Null THEN [@ EXCEPT !.pc = "thrown"]
                           ELSE [@ EXCEPT !.pc = "evm", !.address = a]]
    /\ UNCHANGED <<isConnected, address, evm_address, connectId, deviceId,
                   appVars, cardVars, rpcVars, streamVars, server, tradeVars>>

\* getSuiAddress() or getEVMAddress() rejected: the catch block re-throws.
AddressRejected(c) ==
    /\ connectCall[c].pc \in {"sui", "evm"}
    /\ connectCall' = [connectCall EXCEPT ![c].pc = "thrown"]
    /\ UNCHANGED <<isConnected, address, evm_address, connectId, deviceId,
                   appVars, cardVars, rpcVars, streamVars, server, tradeVars>>

\* getEVMAddress() resolved: without an address connect() throws, with one
\* it stores both addresses, sets isConnected and returns.
EvmAddressResolved(c, e) ==
    /\ connectCall[c].pc = "evm"
    /\ IF e = Null
       THEN /\ connectCall' = [connectCall EXCEPT ![c].pc = "thrown"]
            /\ UNCHANGED <<isConnected, address, evm_address>>
       ELSE /\ address' = connectCall[c].address
            /\ evm_address' = e
            /\ isConnected' = TRUE
            /\ connectCall' = [connectCall EXCEPT ![c].pc = "returned"]
    /\ UNCHANGED <<connectId, deviceId,
                   appVars, cardVars, rpcVars, streamVars, server, tradeVars>>

\* disconnect()
Disconnect ==
    /\ isConnected' = FALSE
    /\ address' = Null
    /\ evm_address' = Null
    /\ connectId' = Null
    /\ deviceId' = Null
    /\ connectCall' = [c \in ConnectCallIds |->
                           IF connectCall[c].pc \in {"devices", "sui", "evm"}
                           THEN [connectCall[c] EXCEPT !.disconnected = TRUE]
                           ELSE connectCall[c]]
    /\ UNCHANGED <<appVars, cardVars, rpcVars, streamVars, server, tradeVars>>

NextWallet ==
    \/ \E c \in ConnectCallIds : Connect(c)
    \/ \E c \in ConnectCallIds, devices \in DeviceLists : DeviceListResolved(c, devices)
    \/ \E c \in ConnectCallIds, a \in SuiAddresses : SuiAddressResolved(c, a)
    \/ \E c \in ConnectCallIds : AddressRejected(c)
    \/ \E c \in ConnectCallIds, e \in EvmAddresses : EvmAddressResolved(c, e)
    \/ Disconnect

-----------------------------------------------------------------------------
(* The hardware wallet: signAndExecuteTransaction and                      *)
(* signAndExecuteSuiTransaction.                                           *)

\* The sign operation in progress: its position, the error it threw, whether
\* it has constructed a Transaction, and the ids it handed to
\* signSuiTransaction ("none" as long as it has not invoked it). Operations
\* share nothing but the fields of the wallet, so one is followed at a time.
IdleSignCall ==
    [pc |-> "idle", variant |-> "none", error |-> "none", built |-> FALSE,
     connectId |-> "none", deviceId |-> "none"]

\* The arguments: a TransactionData with or without poolId, or a list of
\* actions of some length.
SignInputs ==
    {[variant |-> "signAndExecuteTransaction", poolId |-> p, length |-> 0] :
         p \in {"pool1", Null}}
    \cup {[variant |-> "signAndExecuteSuiTransaction", poolId |-> Null, length |-> n] :
         n \in {0, 1}}

\* The error a sign operation throws before its first await, "none" if none.
SignRefusal(in) ==
    IF ~isConnected \/ address = Null THEN "Wallet not connected"
    ELSE IF in.variant = "signAndExecuteSuiTransaction" /\ in.length = 0
         THEN "Transaction data is empty"
    ELSE IF in.variant = "signAndExecuteTransaction" /\ in.poolId = Null
         THEN "Pool ID is required for DeepBook transactions"
    ELSE "none"

\* As SignStart, without the check of the connection.
SignStartUnchecked(in) ==
    /\ signCall.pc \in {"idle", "returned", "thrown"}
    /\ signCall' = [IdleSignCall EXCEPT !.variant = in.variant, !.built = TRUE,
                                        !.pc = IF in.variant = "signAndExecuteTransaction"
                                               THEN "order" ELSE "build"]
    /\ UNCHANGED <<transaction, chatTimer, tradingPairsCache, lastFetchTime, pairsCall,
                   analysis, cardVars, rpcVars, streamVars, uiVars, server>>

\* A sign operation up to its first await: it throws, or constructs the
\* Transaction and awaits placeOrder (signAndExecuteTransaction) or tx.build.
SignStart(in) ==
    /\ signCall.pc \in {"idle", "returned", "thrown"}
    /\ signCall' = IF SignRefusal(in) # "none"
                   THEN [IdleSignCall EXCEPT !.variant = in.variant, !.pc = "thrown",
                                             !.error = SignRefusal(in)]
                   ELSE [IdleSignCall EXCEPT !.variant = in.variant, !.built = TRUE,
                                             !.pc = IF in.variant = "signAndExecuteTransaction"
                                                    THEN "order" ELSE "build"]
    /\ UNCHANGED <<transaction, chatTimer, tradingPairsCache, lastFetchTime, pairsCall,
                   analysis, cardVars, rpcVars, streamVars, uiVars, server>>

\* placeOrder resolved: the gas budget is set and tx.build awaited.
OrderPlaced ==
    /\ signCall.pc = "order"
    /\ signCall' = [signCall EXCEPT !.pc = "build"]
    /\ UNCHANGED <<transaction, chatTimer, tradingPairsCache, lastFetchTime, pairsCall,
                   analysis, cardVars, rpcVars, streamVars, uiVars, server>>

\* placeOrder or tx.build rejected: the catch block re-throws.
BuildRejected ==
    /\ signCall.pc \in {"order", "build"}
    /\ signCall' = [signCall EXCEPT !.pc = "thrown", !.error = "build failed"]
    /\ UNCHANGED <<transaction, chatTimer, tradingPairsCache, lastFetchTime, pairsCall,
                   analysis, cardVars, rpcVars, streamVars, uiVars, server>>

\* As BuildResolved, without the check of connectId and deviceId.
BuildResolvedUnchecked ==
    /\ signCall.pc = "build"
    /\ signCall' = [signCall EXCEPT !.pc = "signing", !.connectId = connectId,
                                    !.deviceId = deviceId]
    /\ UNCHANGED <<transaction, chatTimer, tradingPairsCache, lastFetchTime, pairsCall,
                   analysis, cardVars, rpcVars, streamVars, uiVars, server>>

\* tx.build resolved: without connectId or deviceId the operation throws,
\* else it hands both to signSuiTransaction and awaits it.
BuildResolved ==
    /\ signCall.pc = "build"
    /\ signCall' = IF connectId = Null \/ deviceId = Null
                   THEN [signCall EXCEPT !.pc = "thrown",
                                         !.error = "Device connection information is missing"]
                   ELSE [signCall EXCEPT !.pc = "signing", !.connectId = connectId,
                                         !.deviceId = deviceId]
    /\ UNCHANGED <<transaction, chatTimer, tradingPairsCache, lastFetchTime, pairsCall,
                   analysis, cardVars, rpcVars, streamVars, uiVars, server>>

\* signSuiTransaction resolved: the operation returns the digest.
SignResolved ==
    /\ signCall.pc = "signing"
    /\ signCall' = [signCall EXCEPT !.pc = "returned"]
    /\ UNCHANGED <<transaction, chatTimer, tradingPairsCache, lastFetchTime, pairsCall,
                   analysis, cardVars, rpcVars, streamVars, uiVars, server>>

\* signSuiTransaction rejected: the catch block re-throws.
SignRejected ==
    /\ signCall.pc = "signing"
    /\ signCall' = [signCall EXCEPT !.pc = "thrown", !.error = "sign failed"]
    /\ UNCHANGED <<transaction, chatTimer, tradingPairsCache, lastFetchTime, pairsCall,
                   analysis, cardVars, rpcVars, streamVars, uiVars, server>>

\* connect(), disconnect() and the sign operations.
NextSign ==
    \/ \E c \in ConnectCallIds : Connect(c)
    \/ \E c \in ConnectCallIds, devices \in DeviceLists : DeviceListResolved(c, devices)
    \/ \E c \in ConnectCallIds, a \in SuiAddresses : SuiAddressResolved(c, a)
    \/ \E c \in ConnectCallIds : AddressRejected(c)
    \/ \E c \in ConnectCallIds, e \in EvmAddresses : EvmAddressResolved(c, e)
    \/ Disconnect
    \/ \E in \in SignInputs : SignStart(in)
    \/ OrderPlaced
    \/ BuildRejected
    \/ BuildResolved
    \/ SignResolved
    \/ SignRejected

-----------------------------------------------------------------------------
(* The page: the transaction status of App and its handlers.               *)

MaxConfirmCalls == 2

ConfirmCallIds == 1..MaxConfirmCalls

IdleStatus == [status |-> "idle", message |-> "none", txId |-> "none"]

\* A click on Confirm: the position of its handler and how the wallet call
\* it awaited ended ("none": not ended, or never started).
IdleConfirmCall == [pc |-> "idle", handler |-> "none", outcome |-> "none"]

\* handleConfirmTransaction and handleConfirmActions have the same body.
ConfirmHandlers == {"handleConfirmTransaction", "handleConfirmActions"}

\* The messages the wallet may fail with, by the word the handler looks for.
WalletErrors == {"device not found", "failed to sign", "rejected by user"}

\* The message of the catch block.
ErrorMessage(m) ==
    CASE m = "device not found" -> "OneKey hardware wallet error: " \o m
      [] m = "failed to sign"   -> "Transaction signing failed: " \o m
      [] OTHER                  -> "Transaction failed: " \o m

\* handleWalletConnected
HandleWalletConnected ==
    /\ isWalletConnected' = TRUE
    /\ UNCHANGED <<transactionStatus, confirmCall, walletVars, cardVars, rpcVars,
                   streamVars, server, tradeVars>>

\* handleWalletDisconnected
HandleWalletDisconnected ==
    /\ isWalletConnected' = FALSE
    /\ UNCHANGED <<transactionStatus, confirmCall, walletVars, cardVars, rpcVars,
                   streamVars, server, tradeVars>>

\* The handler up to its await: without a wallet it reports an error and
\* returns, else it sets the status to pending and awaits the wallet.
ConfirmStarted(k, handler) ==
    /\ confirmCall[k].pc = "idle"
    /\ k > 1 => confirmCall[k - 1].pc # "idle"
    /\ IF ~isWalletConnected
       THEN /\ transactionStatus' =
                   [status |-> "error",
                    message |-> "Wallet not connected. Please connect your wallet first.",
                    txId |-> "none"]
            /\ confirmCall' = [confirmCall EXCEPT ![k] =
                                   [IdleConfirmCall EXCEPT !.pc = "returned",
                                                           !.handler = handler]]
       ELSE /\ transactionStatus' = [IdleStatus EXCEPT !.status = "pending"]
            /\ confirmCall' = [confirmCall EXCEPT ![k] =
                                   [IdleConfirmCall EXCEPT !.pc = "awaiting",
                                                           !.handler = handler]]

\* A click on Confirm.
HandleConfirm(k, handler) ==
    /\ ConfirmStarted(k, handler)
    /\ UNCHANGED <<isWalletConnected, walletVars, cardVars, rpcVars, streamVars,
                   server, tradeVars>>

\* The wallet resolved: the handler reports the success.
WalletResolved(k) ==
    /\ confirmCall[k].pc = "awaiting"
    /\ transactionStatus' =
           [status |-> "success",
            message |-> "Transaction has been signed and successfully executed by OneKey hardware wallet!",
            txId |-> "digest"]
    /\ confirmCall' = [confirmCall EXCEPT ![k].pc = "returned",
                                          ![k].outcome = "resolved"]
    /\ UNCHANGED <<isWalletConnected, walletVars, cardVars, rpcVars, streamVars,
                   server, tradeVars>>

\* The wallet rejected with message m: the handler reports the error.
WalletRejected(k, m) ==
    /\ confirmCall[k].pc = "awaiting"
    /\ transactionStatus' =
           [status |-> "error", message |-> ErrorMessage(m), txId |-> "none"]
    /\ confirmCall' = [confirmCall EXCEPT ![k].pc = "returned",
                                          ![k].outcome = "rejected"]
    /\ UNCHANGED <<isWalletConnected, walletVars, cardVars, rpcVars, streamVars,
                   server, tradeVars>>

\* handleRejectTransaction
HandleReject ==
    /\ transactionStatus' = IdleStatus
    /\ UNCHANGED <<isWalletConnected, confirmCall, walletVars, cardVars, rpcVars,
                   streamVars, server, tradeVars>>

NextApp ==
    \/ HandleWalletConnected
    \/ HandleWalletDisconnected
    \/ \E k \in ConfirmCallIds, handler \in ConfirmHandlers : HandleConfirm(k, handler)
    \/ \E k \in ConfirmCallIds : WalletResolved(k)
    \/ \E k \in ConfirmCallIds, m \in WalletErrors : WalletRejected(k, m)
    \/ HandleReject

-----------------------------------------------------------------------------
(* AIChat: the simulated progress of a transaction.                        *)

\* The messages of the AI that carry an Execute Transaction button.
MessageIds == {"m1", "m2"}

\* The state `transaction`, with the click whose closure set it for the
\* record (0: none).
IdleTransaction == [messageId |-> Null, status |-> "idle", click |-> 0]

\* The timeout pending for a click: "first" (3000 ms), "second" (2000 ms).
NoTimer == [stage |-> "none", messageId |-> Null]

\* A click on Execute Transaction of message m, shown while the transaction
\* state is not about m: handleExecuteTransaction(m) sets the state and the
\* first timeout, onConfirmActions(actions) runs App's handleConfirmActions.
ExecuteTransactionClicked(k, m) ==
    /\ isWalletConnected
    /\ transaction.messageId # m
    /\ transaction' = [messageId |-> m, status |-> "confirming", click |-> k]
    /\ chatTimer' = [chatTimer EXCEPT ![k] = [stage |-> "first", messageId |-> m]]
    /\ ConfirmStarted(k, "handleConfirmActions")
    /\ UNCHANGED <<signCall, tradingPairsCache, lastFetchTime, pairsCall, analysis,
                   isWalletConnected, walletVars, cardVars, rpcVars, streamVars, server>>

\* The first timeout fires.
FirstTimeout(k) ==
    /\ chatTimer[k].stage = "first"
    /\ transaction' = [messageId |-> chatTimer[k].messageId, status |-> "processing",
                       click |-> k]
    /\ chatTimer' = [chatTimer EXCEPT ![k].stage = "second"]
    /\ UNCHANGED <<signCall, tradingPairsCache, lastFetchTime, pairsCall, analysis,
                   isWalletConnected, transactionStatus, confirmCall, walletVars,
                   cardVars, rpcVars, streamVars, server>>

\* The second timeout fires: isSuccess is Math.random() > 0.2.
SecondTimeout(k, isSuccess) ==
    /\ chatTimer[k].stage = "second"
    /\ transaction' = [messageId |-> chatTimer[k].messageId,
                       status |-> IF isSuccess THEN "completed" ELSE "failed",
                       click |-> k]
    /\ chatTimer' = [chatTimer EXCEPT ![k].stage = "done"]
    /\ UNCHANGED <<signCall, tradingPairsCache, lastFetchTime, pairsCall, analysis,
                   isWalletConnected, transactionStatus, confirmCall, walletVars,
                   cardVars, rpcVars, streamVars, server>>

\* A click on Close.
CloseClicked ==
    /\ transaction.status \in {"completed", "failed"}
    /\ transaction' = IdleTransaction
    /\ UNCHANGED <<chatTimer, signCall, tradingPairsCache, lastFetchTime, pairsCall,
                   analysis, isWalletConnected, transactionStatus, confirmCall,
                   walletVars, cardVars, rpcVars, streamVars, server>>

NextChat ==
    \/ HandleWalletConnected
    \/ HandleWalletDisconnected
    \/ \E k \in ConfirmCallIds, m \in MessageIds : ExecuteTransactionClicked(k, m)
    \/ \E k \in ConfirmCallIds : FirstTimeout(k)
    \/ \E k \in ConfirmCallIds, isSuccess \in BOOLEAN : SecondTimeout(k, isSuccess)
    \/ CloseClicked
    \/ \E k \in ConfirmCallIds : WalletResolved(k)
    \/ \E k \in ConfirmCallIds, m \in WalletErrors : WalletRejected(k, m)

-----------------------------------------------------------------------------
(* tradingAnalysis: the cache of trading pairs.                            *)

MaxPairsCalls == 2

MaxTicks == 3

CACHE_DURATION == 60000

PairsCallIds == 1..MaxPairsCalls

\* The pairs DeepBook may list.
PairNames == {"SUI/USDC"}

\* A Record of trading pairs: its keys, and for the record the call of
\* fetchTradingPairs that built the object (0: the initial {}).
EmptyPairs == [keys |-> {}, by |-> 0]

\* A call of fetchTradingPairs: its position, const now, const pools, what it
\* returned, and whether it has called the network.
IdlePairsCall ==
    [pc |-> "idle", now |-> 0, pools |-> {}, result |-> EmptyPairs, fetched |-> FALSE]

\* The steps by which Date.now() advances between two events.
TickSizes == {CACHE_DURATION \div 2, (CACHE_DURATION \div 2) - 1}

\* Time passes.
Tick(ms) ==
    /\ now + ms <= 1 + MaxTicks * (CACHE_DURATION \div 2)
    /\ now' = now + ms
    /\ UNCHANGED <<tradingPairsCache, lastFetchTime, pairsCall>>
    /\ UNCHANGED <<hasRandomUUID, uuidsIssued, rpcCall, sentIds, signCall, transaction,
                   chatTimer, analysis, cardVars, streamVars, uiVars, server>>

\* The test of the cache at the head of fetchTradingPairs.
CacheFresh(t) ==
    tradingPairsCache.keys # {} /\ t - lastFetchTime < CACHE_DURATION

\* As FetchTradingPairs, with the cache taken for fresh as soon as it holds
\* a pair.
FetchTradingPairsIgnoringAge(c) ==
    /\ pairsCall[c].pc = "idle"
    /\ c > 1 => pairsCall[c - 1].pc # "idle"
    /\ pairsCall' = [pairsCall EXCEPT ![c] =
                         IF tradingPairsCache.keys # {}
                         THEN [@ EXCEPT !.pc = "returned", !.now = now,
                                        !.result = tradingPairsCache]
                         ELSE [@ EXCEPT !.pc = "pools", !.now = now, !.fetched = TRUE]]
    /\ UNCHANGED <<now, tradingPairsCache, lastFetchTime>>
    /\ UNCHANGED <<hasRandomUUID, uuidsIssued, rpcCall, sentIds, signCall, transaction,
                   chatTimer, analysis, cardVars, streamVars, uiVars, server>>

\* fetchTradingPairs() up to its first await: it returns the fresh cache, or
\* calls getAllTradingPairs().
FetchTradingPairs(c) ==
    /\ pairsCall[c].pc = "idle"
    /\ c > 1 => pairsCall[c - 1].pc # "idle"
    /\ pairsCall' = [pairsCall EXCEPT ![c] =
                         IF CacheFresh(now)
                         THEN [@ EXCEPT !.pc = "returned", !.now = now,
                                        !.result = tradingPairsCache]
                         ELSE [@ EXCEPT !.pc = "pools", !.now = now, !.fetched = TRUE]]
    /\ UNCHANGED <<now, tradingPairsCache, lastFetchTime>>
    /\ UNCHANGED <<hasRandomUUID, uuidsIssued, rpcCall, sentIds, signCall, transaction,
                   chatTimer, analysis, cardVars, streamVars, uiVars, server>>

\* getAllTradingPairs() resolved with the pools (it never rejects: its catch
\* block returns []); fetchMarketData() is called.
PoolsResolved(c, pools) ==
    /\ pairsCall[c].pc = "pools"
    /\ pairsCall' = [pairsCall EXCEPT ![c].pc = "ticker", ![c].pools = pools]
    /\ UNCHANGED <<now, tradingPairsCache, lastFetchTime>>
    /\ UNCHANGED <<hasRandomUUID, uuidsIssued, rpcCall, sentIds, signCall, transaction,
                   chatTimer, analysis, cardVars, streamVars, uiVars, server>>

\* The pairs built from the pools that have ticker info (getMarketData throws
\* for the others, and the loop skips them).
UpdatedPairs(c, ticker) ==
    IF pairsCall[c].pools \cap ticker = {} THEN EmptyPairs
    ELSE [keys |-> pairsCall[c].pools \cap ticker, by |-> c]

\* As MarketDataResolved, with the cache updated whatever was obtained.
MarketDataResolvedOverwriting(c, ticker) ==
    /\ pairsCall[c].pc = "ticker"
    /\ tradingPairsCache' = UpdatedPairs(c, ticker)
    /\ lastFetchTime' = pairsCall[c].now
    /\ pairsCall' = [pairsCall EXCEPT ![c].pc = "returned",
                                      ![c].result = UpdatedPairs(c, ticker)]
    /\ UNCHANGED now
    /\ UNCHANGED <<hasRandomUUID, uuidsIssued, rpcCall, sentIds, signCall, transaction,
                   chatTimer, analysis, cardVars, streamVars, uiVars, server>>

\* fetchMarketData() resolved with ticker info for the pairs of `ticker`: the
\* pairs are built, the cache and lastFetchTime are updated when there is at
\* least one, and the pairs are returned.
MarketDataResolved(c, ticker) ==
    /\ pairsCall[c].pc = "ticker"
    /\ IF UpdatedPairs(c, ticker).keys # {}
       THEN /\ tradingPairsCache' = UpdatedPairs(c, ticker)
            /\ lastFetchTime' = pairsCall[c].now
       ELSE UNCHANGED <<tradingPairsCache, lastFetchTime>>
    /\ pairsCall' = [pairsCall EXCEPT ![c].pc = "returned",
                                      ![c].result = UpdatedPairs(c, ticker)]
    /\ UNCHANGED now
    /\ UNCHANGED <<hasRandomUUID, uuidsIssued, rpcCall, sentIds, signCall, transaction,
                   chatTimer, analysis, cardVars, streamVars, uiVars, server>>

\* fetchMarketData() rejected: the catch block returns {}.
MarketDataRejected(c) ==
    /\ pairsCall[c].pc = "ticker"
    /\ pairsCall' = [pairsCall EXCEPT ![c].pc = "returned", ![c].result = EmptyPairs]
    /\ UNCHANGED <<now, tradingPairsCache, lastFetchTime>>
    /\ UNCHANGED <<hasRandomUUID, uuidsIssued, rpcCall, sentIds, signCall, transaction,
                   chatTimer, analysis, cardVars, streamVars, uiVars, server>>

NextPairs ==
    \/ \E ms \in TickSizes : Tick(ms)
    \/ \E c \in PairsCallIds : FetchTradingPairs(c)
    \/ \E c \in PairsCallIds, pools \in SUBSET PairNames : PoolsResolved(c, pools)
    \/ \E c \in PairsCallIds, ticker \in SUBSET PairNames : MarketDataResolved(c, ticker)
    \/ \E c \in PairsCallIds : MarketDataRejected(c)

-----------------------------------------------------------------------------
(* tradingAnalysis: analyzeTradingPair.                                    *)
(* Numbers are IEEE doubles: a finite value, Infinity, -Infinity or NaN.   *)
(* Finite values are counted in the units given with each quantity.        *)

Fin(n) == [kind |-> "fin", val |-> n]
Infinity == [kind |-> "inf", val |-> 0]
NegInfinity == [kind |-> "ninf", val |-> 0]
NaN == [kind |-> "nan", val |-> 0]

\* -a
Neg(a) ==
    CASE a.kind = "fin"  -> Fin(0 - a.val)
      [] a.kind = "inf"  -> NegInfinity
      [] a.kind = "ninf" -> Infinity
      [] OTHER           -> NaN

\* a + b (same unit)
Plus(a, b) ==
    CASE a.kind = "nan" \/ b.kind = "nan"     -> NaN
      [] a.kind = "fin" /\ b.kind = "fin"     -> Fin(a.val + b.val)
      [] a.kind = "fin"                       -> b
      [] b.kind = "fin"                       -> a
      [] a.kind = b.kind                      -> a
      [] OTHER                                -> NaN

\* a * k for a finite k > 0
Times(a, k) == IF a.kind = "fin" THEN Fin(a.val * k) ELSE a

\* Math.abs
MathAbs(a) ==
    CASE a.kind = "fin"  -> Fin(IF a.val < 0 THEN 0 - a.val ELSE a.val)
      [] a.kind = "nan"  -> NaN
      [] OTHER           -> Infinity

\* Math.round of a value in hundredths, in units
MathRound(a) == IF a.kind = "fin" THEN Fin((a.val + 50) \div 100) ELSE a

\* a >= b; every comparison with NaN is false
GreaterEq(a, b) ==
    /\ a.kind # "nan" /\ b.kind # "nan"
    /\ \/ a.kind = "inf"
       \/ b.kind = "ninf"
       \/ a.kind = "fin" /\ b.kind = "fin" /\ a.val >= b.val

\* Math.max, Math.min
MathMax(a, b) ==
    IF a.kind = "nan" \/ b.kind = "nan" THEN NaN
    ELSE IF GreaterEq(a, b) THEN a ELSE b

MathMin(a, b) ==
    IF a.kind = "nan" \/ b.kind = "nan" THEN NaN
    ELSE IF GreaterEq(a, b) THEN b ELSE a

\* volume24h, in units of 50000: Number(quote_volume) || 0.
Volumes == {Fin(0), Fin(100), Fin(250), Fin(300), Fin(1200), Infinity}

\* change24h, in percent: Number(price_change_percent_24h) || 0.
Changes ==
    {Fin(0 - 20), Fin(0 - 5), Fin(0), Fin(2), Fin(5), Fin(10), Fin(30),
     Infinity, NegInfinity}

\* liquidity, in hundredths: within 0..1, or NaN (a lowest_ask of Infinity).
Liquidities == {Fin(0), Fin(50), Fin(100), NaN}

\* The market data of a pair as getMarketData returns it; volatility, in
\* hundredths, is Math.abs(change24h / 100).
MarketData(volume, change, liquidity) ==
    [volume24h |-> volume, change24h |-> change, volatility |-> MathAbs(change),
     liquidity |-> liquidity]

\* The four partial scores and their sum, in hundredths.
VolumeScore(pairData) == pairData.volume24h

ChangeScore(pairData) == Times(pairData.change24h, 30)

VolatilityScore(pairData) ==
    Plus(Fin(200), Neg(Times(MathAbs(Plus(pairData.volatility, Fin(0 - 5))), 40)))

LiquidityScore(pairData) == Times(pairData.liquidity, 2)

RawScore(pairData) ==
    Plus(Plus(Plus(VolumeScore(pairData), ChangeScore(pairData)),
              VolatilityScore(pairData)),
         LiquidityScore(pairData))

\* const score
Score(pairData) == MathMin(MathMax(MathRound(RawScore(pairData)), Fin(0)), Fin(10))

\* let recommendation
Recommendation(score) ==
    IF GreaterEq(score, Fin(8)) THEN "Strong Buy"
    ELSE IF GreaterEq(score, Fin(6)) THEN "Buy"
    ELSE IF GreaterEq(score, Fin(4)) THEN "Hold"
    ELSE IF GreaterEq(score, Fin(2)) THEN "Sell"
    ELSE "Strong Sell"

\* transactionData.transactionType
TransactionType(score) == IF GreaterEq(score, Fin(5)) THEN "buy" ELSE "sell"

NoAnalysis ==
    [pc |-> "none", pairData |-> MarketData(Fin(0), Fin(0), Fin(0)), score |-> Fin(0),
     recommendation |-> "none", transactionType |-> "none"]

\* The analysis analyzeTradingPair returns for the data of a pair.
AnalysisOf(pairData) ==
    [pc |-> "returned", pairData |-> pairData, score |-> Score(pairData),
     recommendation |-> Recommendation(Score(pairData)),
     transactionType |-> TransactionType(Score(pairData))]

\* analyzeTradingPair(pair), fetchTradingPairs() having returned the pairs:
\* it throws when the pair is not among them, else returns its analysis.
AnalyzeTradingPair(found, volume, change, liquidity) ==
    /\ analysis' =
           IF ~found THEN [NoAnalysis EXCEPT !.pc = "thrown"]
           ELSE AnalysisOf(MarketData(volume, change, liquidity))
    /\ UNCHANGED <<signCall, transaction, chatTimer, tradingPairsCache, lastFetchTime,
                   pairsCall, cardVars, rpcVars, streamVars, uiVars, server>>

NextAnalysis ==
    \E found \in BOOLEAN, volume \in Volumes, change \in Changes,
       liquidity \in Liquidities :
        AnalyzeTradingPair(found, volume, change, liquidity)

-----------------------------------------------------------------------------
(* Specifications *)

\* A new client: nothing cached, no call made.  (The round-trip and the
\* streaming parts stay as they are.)
InitCard ==
    /\ cachedAgentCard = NoCards
    /\ cardCall = [c \in CardCallIds |-> IdleCardCall]
    /\ fetches = <<>>
    /\ hasRandomUUID = TRUE
    /\ now = 1
    /\ uuidsIssued = 0
    /\ rpcCall = [c \in RpcCallIds |-> IdleRpcCall]
    /\ sentIds = <<>>
    /\ sent = [frames |-> <<>>, eol |-> <<LF>>, status |-> 200]
    /\ mode = "none"
    /\ wire = <<>>
    /\ buffer = <<>>
    /\ lines = <<>>
    /\ yielded = <<>>
    /\ handled = <<>>
    /\ cuts = NoCuts
    /\ spc = "none"
    /\ streamError = NoError
    /\ reader = "none"
    /\ streamCall = NoStreamCall
    /\ isConnected = FALSE
    /\ address = Null
    /\ evm_address = Null
    /\ connectId = Null
    /\ deviceId = Null
    /\ connectCall = [c \in ConnectCallIds |-> IdleConnectCall]
    /\ isWalletConnected = FALSE
    /\ transactionStatus = IdleStatus
    /\ confirmCall = [k \in ConfirmCallIds |-> IdleConfirmCall]
    /\ signCall = IdleSignCall
    /\ transaction = IdleTransaction
    /\ chatTimer = [k \in ConfirmCallIds |-> NoTimer]
    /\ tradingPairsCache = EmptyPairs
    /\ lastFetchTime = 0
    /\ pairsCall = [c \in PairsCallIds |-> IdlePairsCall]
    /\ analysis = NoAnalysis
    /\ server = NoServer

\* A new client in an environment with or without crypto.randomUUID.
InitRpc ==
    /\ hasRandomUUID \in BOOLEAN
    /\ now = 1
    /\ uuidsIssued = 0
    /\ rpcCall = [c \in RpcCallIds |-> IdleRpcCall]
    /\ sentIds = <<>>
    /\ cachedAgentCard = NoCards
    /\ cardCall = [c \in CardCallIds |-> IdleCardCall]
    /\ fetches = <<>>
    /\ sent = [frames |-> <<>>, eol |-> <<LF>>, status |-> 200]
    /\ mode = "none"
    /\ wire = <<>>
    /\ buffer = <<>>
    /\ lines = <<>>
    /\ yielded = <<>>
    /\ handled = <<>>
    /\ cuts = NoCuts
    /\ spc = "none"
    /\ streamError = NoError
    /\ reader = "none"
    /\ streamCall = NoStreamCall
    /\ isConnected = FALSE
    /\ address = Null
    /\ evm_address = Null
    /\ connectId = Null
    /\ deviceId = Null
    /\ connectCall = [c \in ConnectCallIds |-> IdleConnectCall]
    /\ isWalletConnected = FALSE
    /\ transactionStatus = IdleStatus
    /\ confirmCall = [k \in ConfirmCallIds |-> IdleConfirmCall]
    /\ signCall = IdleSignCall
    /\ transaction = IdleTransaction
    /\ chatTimer = [k \in ConfirmCallIds |-> NoTimer]
    /\ tradingPairsCache = EmptyPairs
    /\ lastFetchTime = 0
    /\ pairsCall = [c \in PairsCallIds |-> IdlePairsCall]
    /\ analysis = NoAnalysis
    /\ server = NoServer

\* A generator has been created and nothing of it has run.  The server
\* (mode "transport") or the Response handed to the decoder (mode "direct")
\* will carry the frames of sent under a success status, or answer with a
\* failure status.
InitStream ==
    /\ \/ \E frames \in Streams(MaxFrames), eol \in Eols :
              sent = [frames |-> frames, eol |-> eol, status |-> 200]
       \/ sent = [frames |-> <<>>, eol |-> <<LF>>, status |-> 500]
    /\ mode \in {"direct", "transport"}
    /\ IF mode = "transport"
       THEN \E op \in StreamOps :
                streamCall = [NoStreamCall EXCEPT !.op = op, !.params = "t1"]
       ELSE streamCall = NoStreamCall
    /\ wire = <<>>
    /\ buffer = <<>>
    /\ lines = <<>>
    /\ yielded = <<>>
    /\ handled = <<>>
    /\ cuts = NoCuts
    /\ spc = "created"
    /\ streamError = NoError
    /\ reader = "none"
    /\ cachedAgentCard = NoCards
    /\ cardCall = [c \in CardCallIds |-> IdleCardCall]
    /\ fetches = <<>>
    /\ hasRandomUUID = TRUE
    /\ now = 1
    /\ uuidsIssued = 0
    /\ rpcCall = [c \in RpcCallIds |-> IdleRpcCall]
    /\ sentIds = <<>>
    /\ isConnected = FALSE
    /\ address = Null
    /\ evm_address = Null
    /\ connectId = Null
    /\ deviceId = Null
    /\ connectCall = [c \in ConnectCallIds |-> IdleConnectCall]
    /\ isWalletConnected = FALSE
    /\ transactionStatus = IdleStatus
    /\ confirmCall = [k \in ConfirmCallIds |-> IdleConfirmCall]
    /\ signCall = IdleSignCall
    /\ transaction = IdleTransaction
    /\ chatTimer = [k \in ConfirmCallIds |-> NoTimer]
    /\ tradingPairsCache = EmptyPairs
    /\ lastFetchTime = 0
    /\ pairsCall = [c \in PairsCallIds |-> IdlePairsCall]
    /\ analysis = NoAnalysis
    /\ server = NoServer

\* The requests of the seven operations: a new client, with or without
\* crypto.randomUUID, and a subscription created and not yet started.
NextRequests ==
    \/ \E c \in RpcCallIds, op \in SingleOps, p \in RequestParams, t \in ClockReadings :
           RpcSend(c, op, p, t)
    \/ \E t \in ClockReadings : SubscribeFirstNext(t)

InitRequests ==
    /\ hasRandomUUID \in BOOLEAN
    /\ now = 1
    /\ uuidsIssued = 0
    /\ rpcCall = [c \in RpcCallIds |-> IdleRpcCall]
    /\ sentIds = <<>>
    /\ cachedAgentCard = NoCards
    /\ cardCall = [c \in CardCallIds |-> IdleCardCall]
    /\ fetches = <<>>
    /\ sent = [frames |-> <<>>, eol |-> <<LF>>, status |-> 200]
    /\ mode = "transport"
    /\ \E op \in StreamOps, p \in RequestParams :
           streamCall = [NoStreamCall EXCEPT !.op = op, !.params = p]
    /\ wire = <<>>
    /\ buffer = <<>>
    /\ lines = <<>>
    /\ yielded = <<>>
    /\ handled = <<>>
    /\ cuts = NoCuts
    /\ spc = "created"
    /\ streamError = NoError
    /\ reader = "none"
    /\ isConnected = FALSE
    /\ address = Null
    /\ evm_address = Null
    /\ connectId = Null
    /\ deviceId = Null
    /\ connectCall = [c \in ConnectCallIds |-> IdleConnectCall]
    /\ isWalletConnected = FALSE
    /\ transactionStatus = IdleStatus
    /\ confirmCall = [k \in ConfirmCallIds |-> IdleConfirmCall]
    /\ signCall = IdleSignCall
    /\ transaction = IdleTransaction
    /\ chatTimer = [k \in ConfirmCallIds |-> NoTimer]
    /\ tradingPairsCache = EmptyPairs
    /\ lastFetchTime = 0
    /\ pairsCall = [c \in PairsCallIds |-> IdlePairsCall]
    /\ analysis = NoAnalysis
    /\ server = NoServer

\* A new client in front of an agent that holds nothing yet or holds the
\* task t1, and that tags its envelopes with the version or does not.
InitServer ==
    /\ hasRandomUUID = TRUE
    /\ now = 1
    /\ uuidsIssued = 0
    /\ rpcCall = [c \in RpcCallIds |-> IdleRpcCall]
    /\ sentIds = <<>>
    /\ \E st \in {"absent", "submitted"}, tag \in {"2.0", "absent"} :
           server = [NoServer EXCEPT !.tasks["t1"] = st, !.jsonrpc = tag]
    /\ cachedAgentCard = NoCards
    /\ cardCall = [c \in CardCallIds |-> IdleCardCall]
    /\ fetches = <<>>
    /\ sent = [frames |-> <<>>, eol |-> <<LF>>, status |-> 200]
    /\ mode = "none"
    /\ wire = <<>>
    /\ buffer = <<>>
    /\ lines = <<>>
    /\ yielded = <<>>
    /\ handled = <<>>
    /\ cuts = NoCuts
    /\ spc = "none"
    /\ streamError = NoError
    /\ reader = "none"
    /\ streamCall = NoStreamCall
    /\ isConnected = FALSE
    /\ address = Null
    /\ evm_address = Null
    /\ connectId = Null
    /\ deviceId = Null
    /\ connectCall = [c \in ConnectCallIds |-> IdleConnectCall]
    /\ isWalletConnected = FALSE
    /\ transactionStatus = IdleStatus
    /\ confirmCall = [k \in ConfirmCallIds |-> IdleConfirmCall]
    /\ signCall = IdleSignCall
    /\ transaction = IdleTransaction
    /\ chatTimer = [k \in ConfirmCallIds |-> NoTimer]
    /\ tradingPairsCache = EmptyPairs
    /\ lastFetchTime = 0
    /\ pairsCall = [c \in PairsCallIds |-> IdlePairsCall]
    /\ analysis = NoAnalysis

\* Two new clients: nothing cached, no call made.
InitClients ==
    /\ cachedAgentCard = NoCards
    /\ cardCall = [c \in CardCallIds |-> IdleCardCall]
    /\ fetches = <<>>
    /\ hasRandomUUID = TRUE
    /\ now = 1
    /\ uuidsIssued = 0
    /\ rpcCall = [c \in RpcCallIds |-> IdleRpcCall]
    /\ sentIds = <<>>
    /\ sent = [frames |-> <<>>, eol |-> <<LF>>, status |-> 200]
    /\ mode = "none"
    /\ wire = <<>>
    /\ buffer = <<>>
    /\ lines = <<>>
    /\ yielded = <<>>
    /\ handled = <<>>
    /\ cuts = NoCuts
    /\ spc = "none"
    /\ streamError = NoError
    /\ reader = "none"
    /\ streamCall = NoStreamCall
    /\ isConnected = FALSE
    /\ address = Null
    /\ evm_address = Null
    /\ connectId = Null
    /\ deviceId = Null
    /\ connectCall = [c \in ConnectCallIds |-> IdleConnectCall]
    /\ isWalletConnected = FALSE
    /\ transactionStatus = IdleStatus
    /\ confirmCall = [k \in ConfirmCallIds |-> IdleConfirmCall]
    /\ signCall = IdleSignCall
    /\ transaction = IdleTransaction
    /\ chatTimer = [k \in ConfirmCallIds |-> NoTimer]
    /\ tradingPairsCache = EmptyPairs
    /\ lastFetchTime = 0
    /\ pairsCall = [c \in PairsCallIds |-> IdlePairsCall]
    /\ analysis = NoAnalysis
    /\ server = NoServer

\* A new wallet object: not connected, no connect() made.
InitWallet ==
    /\ cachedAgentCard = NoCards
    /\ cardCall = [c \in CardCallIds |-> IdleCardCall]
    /\ fetches = <<>>
    /\ hasRandomUUID = TRUE
    /\ now = 1
    /\ uuidsIssued = 0
    /\ rpcCall = [c \in RpcCallIds |-> IdleRpcCall]
    /\ sentIds = <<>>
    /\ sent = [frames |-> <<>>, eol |-> <<LF>>, status |-> 200]
    /\ mode = "none"
    /\ wire = <<>>
    /\ buffer = <<>>
    /\ lines = <<>>
    /\ yielded = <<>>
    /\ handled = <<>>
    /\ cuts = NoCuts
    /\ spc = "none"
    /\ streamError = NoError
    /\ reader = "none"
    /\ streamCall = NoStreamCall
    /\ isConnected = FALSE
    /\ address = Null
    /\ evm_address = Null
    /\ connectId = Null
    /\ deviceId = Null
    /\ connectCall = [c \in ConnectCallIds |-> IdleConnectCall]
    /\ isWalletConnected = FALSE
    /\ transactionStatus = IdleStatus
    /\ confirmCall = [k \in ConfirmCallIds |-> IdleConfirmCall]
    /\ signCall = IdleSignCall
    /\ transaction = IdleTransaction
    /\ chatTimer = [k \in ConfirmCallIds |-> NoTimer]
    /\ tradingPairsCache = EmptyPairs
    /\ lastFetchTime = 0
    /\ pairsCall = [c \in PairsCallIds |-> IdlePairsCall]
    /\ analysis = NoAnalysis
    /\ server = NoServer

\* The page as first rendered: no wallet, status idle, no click yet.
InitApp ==
    /\ cachedAgentCard = NoCards
    /\ cardCall = [c \in CardCallIds |-> IdleCardCall]
    /\ fetches = <<>>
    /\ hasRandomUUID = TRUE
    /\ now = 1
    /\ uuidsIssued = 0
    /\ rpcCall = [c \in RpcCallIds |-> IdleRpcCall]
    /\ sentIds = <<>>
    /\ sent = [frames |-> <<>>, eol |-> <<LF>>, status |-> 200]
    /\ mode = "none"
    /\ wire = <<>>
    /\ buffer = <<>>
    /\ lines = <<>>
    /\ yielded = <<>>
    /\ handled = <<>>
    /\ cuts = NoCuts
    /\ spc = "none"
    /\ streamError = NoError
    /\ reader = "none"
    /\ streamCall = NoStreamCall
    /\ isConnected = FALSE
    /\ address = Null
    /\ evm_address = Null
    /\ connectId = Null
    /\ deviceId = Null
    /\ connectCall = [c \in ConnectCallIds |-> IdleConnectCall]
    /\ isWalletConnected = FALSE
    /\ transactionStatus = IdleStatus
    /\ confirmCall = [k \in ConfirmCallIds |-> IdleConfirmCall]
    /\ signCall = IdleSignCall
    /\ transaction = IdleTransaction
    /\ chatTimer = [k \in ConfirmCallIds |-> NoTimer]
    /\ tradingPairsCache = EmptyPairs
    /\ lastFetchTime = 0
    /\ pairsCall = [c \in PairsCallIds |-> IdlePairsCall]
    /\ analysis = NoAnalysis
    /\ server = NoServer

InitAnalysis ==
    /\ cachedAgentCard = NoCards
    /\ cardCall = [c \in CardCallIds |-> IdleCardCall]
    /\ fetches = <<>>
    /\ hasRandomUUID = TRUE
    /\ now = 1
    /\ uuidsIssued = 0
    /\ rpcCall = [c \in RpcCallIds |-> IdleRpcCall]
    /\ sentIds = <<>>
    /\ sent = [frames |-> <<>>, eol |-> <<LF>>, status |-> 200]
    /\ mode = "none"
    /\ wire = <<>>
    /\ buffer = <<>>
    /\ lines = <<>>
    /\ yielded = <<>>
    /\ handled = <<>>
    /\ cuts = NoCuts
    /\ spc = "none"
    /\ streamError = NoError
    /\ reader = "none"
    /\ streamCall = NoStreamCall
    /\ isConnected = FALSE
    /\ address = Null
    /\ evm_address = Null
    /\ connectId = Null
    /\ deviceId = Null
    /\ connectCall = [c \in ConnectCallIds |-> IdleConnectCall]
    /\ isWalletConnected = FALSE
    /\ transactionStatus = IdleStatus
    /\ confirmCall = [k \in ConfirmCallIds |-> IdleConfirmCall]
    /\ signCall = IdleSignCall
    /\ transaction = IdleTransaction
    /\ chatTimer = [k \in ConfirmCallIds |-> NoTimer]
    /\ tradingPairsCache = EmptyPairs
    /\ lastFetchTime = 0
    /\ pairsCall = [c \in PairsCallIds |-> IdlePairsCall]
    /\ analysis = NoAnalysis
    /\ server = NoServer

InitPairs ==
    /\ cachedAgentCard = NoCards
    /\ cardCall = [c \in CardCallIds |-> IdleCardCall]
    /\ fetches = <<>>
    /\ hasRandomUUID = TRUE
    /\ now = 1
    /\ uuidsIssued = 0
    /\ rpcCall = [c \in RpcCallIds |-> IdleRpcCall]
    /\ sentIds = <<>>
    /\ sent = [frames |-> <<>>, eol |-> <<LF>>, status |-> 200]
    /\ mode = "none"
    /\ wire = <<>>
    /\ buffer = <<>>
    /\ lines = <<>>
    /\ yielded = <<>>
    /\ handled = <<>>
    /\ cuts = NoCuts
    /\ spc = "none"
    /\ streamError = NoError
    /\ reader = "none"
    /\ streamCall = NoStreamCall
    /\ isConnected = FALSE
    /\ address = Null
    /\ evm_address = Null
    /\ connectId = Null
    /\ deviceId = Null
    /\ connectCall = [c \in ConnectCallIds |-> IdleConnectCall]
    /\ isWalletConnected = FALSE
    /\ transactionStatus = IdleStatus
    /\ confirmCall = [k \in ConfirmCallIds |-> IdleConfirmCall]
    /\ signCall = IdleSignCall
    /\ transaction = IdleTransaction
    /\ chatTimer = [k \in ConfirmCallIds |-> NoTimer]
    /\ tradingPairsCache = EmptyPairs
    /\ lastFetchTime = 0
    /\ pairsCall = [c \in PairsCallIds |-> IdlePairsCall]
    /\ analysis = NoAnalysis
    /\ server = NoServer

InitChat ==
    /\ cachedAgentCard = NoCards
    /\ cardCall = [c \in CardCallIds |-> IdleCardCall]
    /\ fetches = <<>>
    /\ hasRandomUUID = TRUE
    /\ now = 1
    /\ uuidsIssued = 0
    /\ rpcCall = [c \in RpcCallIds |-> IdleRpcCall]
    /\ sentIds = <<>>
    /\ sent = [frames |-> <<>>, eol |-> <<LF>>, status |-> 200]
    /\ mode = "none"
    /\ wire = <<>>
    /\ buffer = <<>>
    /\ lines = <<>>
    /\ yielded = <<>>
    /\ handled = <<>>
    /\ cuts = NoCuts
    /\ spc = "none"
    /\ streamError = NoError
    /\ reader = "none"
    /\ streamCall = NoStreamCall
    /\ isConnected = FALSE
    /\ address = Null
    /\ evm_address = Null
    /\ connectId = Null
    /\ deviceId = Null
    /\ connectCall = [c \in ConnectCallIds |-> IdleConnectCall]
    /\ isWalletConnected = FALSE
    /\ transactionStatus = IdleStatus
    /\ confirmCall = [k \in ConfirmCallIds |-> IdleConfirmCall]
    /\ signCall = IdleSignCall
    /\ transaction = IdleTransaction
    /\ chatTimer = [k \in ConfirmCallIds |-> NoTimer]
    /\ tradingPairsCache = EmptyPairs
    /\ lastFetchTime = 0
    /\ pairsCall = [c \in PairsCallIds |-> IdlePairsCall]
    /\ analysis = NoAnalysis
    /\ server = NoServer

InitSign ==
    /\ cachedAgentCard = NoCards
    /\ cardCall = [c \in CardCallIds |-> IdleCardCall]
    /\ fetches = <<>>
    /\ hasRandomUUID = TRUE
    /\ now = 1
    /\ uuidsIssued = 0
    /\ rpcCall = [c \in RpcCallIds |-> IdleRpcCall]
    /\ sentIds = <<>>
    /\ sent = [frames |-> <<>>, eol |-> <<LF>>, status |-> 200]
    /\ mode = "none"
    /\ wire = <<>>
    /\ buffer = <<>>
    /\ lines = <<>>
    /\ yielded = <<>>
    /\ handled = <<>>
    /\ cuts = NoCuts
    /\ spc = "none"
    /\ streamError = NoError
    /\ reader = "none"
    /\ streamCall = NoStreamCall
    /\ isConnected = FALSE
    /\ address = Null
    /\ evm_address = Null
    /\ connectId = Null
    /\ deviceId = Null
    /\ connectCall = [c \in ConnectCallIds |-> IdleConnectCall]
    /\ isWalletConnected = FALSE
    /\ transactionStatus = IdleStatus
    /\ confirmCall = [k \in ConfirmCallIds |-> IdleConfirmCall]
    /\ signCall = IdleSignCall
    /\ transaction = IdleTransaction
    /\ chatTimer = [k \in ConfirmCallIds |-> NoTimer]
    /\ tradingPairsCache = EmptyPairs
    /\ lastFetchTime = 0
    /\ pairsCall = [c \in PairsCallIds |-> IdlePairsCall]
    /\ analysis = NoAnalysis
    /\ server = NoServer

SpecCard   == InitCard /\ [][NextCard]_vars
SpecRpc    == InitRpc /\ [][NextRpc]_vars
SpecStream == InitStream /\ [][NextStream]_vars
SpecRequests == InitRequests /\ [][NextRequests]_vars
SpecServer == InitServer /\ [][NextServer]_vars
SpecClients == InitClients /\ [][NextClients]_vars
SpecWallet == InitWallet /\ [][NextWallet]_vars
SpecApp == InitApp /\ [][NextApp]_vars
SpecSign == InitSign /\ [][NextSign]_vars
SpecChat == InitChat /\ [][NextChat]_vars
SpecPairs == InitPairs /\ [][NextPairs]_vars
SpecAnalysis == InitAnalysis /\ [][NextAnalysis]_vars

-----------------------------------------------------------------------------
(* Properties of the agent-card cache (SpecCard) *)

\* C1: as long as no fetch of the agent card has failed, the calls of
\* agentCard()/supports() made on the client, those started before the first
\* fetch resolved included, have issued at most one fetch between them.
C1_SingleFlight ==
    (\A i \in 1..Len(fetches) : fetches[i].outcome # "failed")
        => Len(fetches) <= 1

\* The fetch a call awaited has failed.
FetchFailed(call) ==
    call.fetch > 0 /\ fetches[call.fetch].outcome = "failed"

\* The capability flag of a card as the server set it: absent when the card
\* has no capabilities object or the object has no such flag.
FlagSet(card, cap) ==
    \/ cap = "streaming" /\ card.caps /\ card.streaming
    \/ cap = "pushNotifications" /\ card.caps /\ card.push

\* C11: a supports(capability) call that has completed has returned, never
\* thrown: false when the fetch it awaited failed, and otherwise true exactly
\* when the card it obtained has the matching capability flag set.
C11_SupportsNeverFails ==
    \A c \in CardCallIds :
        (cardCall[c].op = "supports" /\ cardCall[c].pc \notin {"idle", "awaiting"})
            => /\ cardCall[c].pc = "returned"
               /\ cardCall[c].error = NoError
               /\ cardCall[c].bool =
                      (~FetchFailed(cardCall[c])
                          /\ FlagSet(cardCall[c].card, cardCall[c].cap))

\* One supports() has answered false on a failed fetch, another has answered
\* true for a card that has the flag asked for and not the other one, and a
\* third false for a card without a capabilities object.
C11_Witness ==
    \E a, b, c \in CardCallIds :
        /\ cardCall[a].op = "supports" /\ cardCall[a].pc = "returned"
        /\ FetchFailed(cardCall[a]) /\ ~cardCall[a].bool
        /\ cardCall[b].op = "supports" /\ cardCall[b].pc = "returned"
        /\ cardCall[b].cap = "streaming" /\ cardCall[b].bool
        /\ cardCall[b].card.streaming /\ ~cardCall[b].card.push
        /\ cardCall[c].op = "supports" /\ cardCall[c].pc = "returned"
        /\ cardCall[c].card.kind = "card" /\ ~cardCall[c].card.caps
        /\ ~cardCall[c].bool

SomeFetchSucceeded == \E i \in 1..Len(fetches) : fetches[i].outcome = "ok"

\* The body a successful fetch obtained: the card its caller was given.
FetchedValue(i) == cardCall[fetches[i].by].card

\* C12: once a fetch of the card has succeeded, whatever body it returned,
\* no call started afterwards issues another fetch, and an agentCard() started
\* afterwards returns the value that fetch obtained.  (In a sequential call
\* history every fetch before a successful one has failed, so the number of
\* fetches is then at most one plus the number of failed fetches.)
C12_FetchedOnce ==
    [][ SomeFetchSucceeded
            => /\ Len(fetches') = Len(fetches)
               /\ \A c \in CardCallIds :
                      (/\ cardCall[c].pc = "idle"
                       /\ cardCall'[c].pc = "returned"
                       /\ cardCall'[c].op = "agentCard")
                          => \A i \in 1..Len(fetches) :
                                 fetches[i].outcome = "ok"
                                     => cardCall'[c].card = FetchedValue(i) ]_vars

\* No fetch has succeeded and at least one has failed.
OnlyFailures ==
    /\ ~SomeFetchSucceeded
    /\ \E i \in 1..Len(fetches) : fetches[i].outcome = "failed"

\* C13: the step in which a fetch fails leaves the cache as it was; the
\* agentCard() that awaited it throws an RpcError of code -32603 whose data
\* is the cause; as long as no fetch has succeeded the cache is empty, and a
\* call started after a failure then issues a new fetch.
C13_FailureNotCached ==
    [][ /\ \A c \in CardCallIds :
               (/\ cardCall[c].pc = "awaiting"
                /\ fetches'[cardCall[c].fetch].outcome = "failed")
                   => /\ cachedAgentCard' = cachedAgentCard
                      /\ cardCall[c].op = "agentCard"
                             => /\ cardCall'[c].pc = "thrown"
                                /\ cardCall'[c].error.name = "RpcError"
                                /\ cardCall'[c].error.code = InternalError
                                /\ cardCall'[c].error.data.kind = "cause"
        /\ OnlyFailures'
               => cachedAgentCard' = NoCards
        /\ \A c \in CardCallIds :
               (OnlyFailures /\ cardCall[c].pc = "idle" /\ cardCall'[c].pc # "idle")
                   => /\ Len(fetches') = Len(fetches) + 1
                      /\ fetches'[Len(fetches')].by = c
                      /\ cardCall'[c].pc = "awaiting" ]_vars

\* An agentCard() has thrown on a failed fetch and the call made after it
\* has issued a fetch of its own.
C13_Witness ==
    \E c \in CardCallIds \ {MaxCardCalls} :
        /\ cardCall[c].op = "agentCard" /\ cardCall[c].pc = "thrown"
        /\ cardCall[c].error.code = InternalError
        /\ ~Truthy(cachedAgentCard["A"])
        /\ cardCall[c + 1].fetch > cardCall[c].fetch

-----------------------------------------------------------------------------
(* Properties of the caches of two clients (SpecClients) *)

\* A fetch issued by a call of client k has succeeded.
FetchSucceededOn(k) ==
    \E i \in 1..Len(fetches) :
        fetches[i].outcome = "ok" /\ cardCall[fetches[i].by].client = k

\* C28: the step that ends a fetch of one client, with a card or with a
\* failure, leaves the cache of every other client as it was; and a call
\* made on a client none of whose fetches has succeeded issues a fetch of
\* its own, whatever the other client has cached.
C28_CachePerClient ==
    [][ /\ \A c \in CardCallIds :
               (cardCall[c].pc = "awaiting" /\ cardCall'[c].pc # "awaiting") =>
                   \A k \in Clients \ {cardCall[c].client} :
                       cachedAgentCard'[k] = cachedAgentCard[k]
        /\ \A c \in CardCallIds, k \in Clients :
               (/\ cardCall[c].pc = "idle"
                /\ cardCall'[c].pc # "idle"
                /\ cardCall'[c].client = k
                /\ ~FetchSucceededOn(k)) =>
                   /\ cardCall'[c].pc = "awaiting"
                   /\ Len(fetches') = Len(fetches) + 1
                   /\ fetches'[Len(fetches')].by = c ]_vars

\* Client A has fetched and cached a card, and a call made on client B
\* afterwards is fetching for itself: B's cache is still empty.
C28_Witness ==
    /\ Truthy(cachedAgentCard["A"])
    /\ cachedAgentCard["B"] = NullCard
    /\ \E a, b \in CardCallIds :
           /\ a < b
           /\ cardCall[a].client = "A" /\ cardCall[a].pc = "returned"
           /\ cardCall[b].client = "B" /\ cardCall[b].pc = "awaiting"
           /\ fetches[cardCall[a].fetch].outcome = "ok"
           /\ cardCall[b].fetch > cardCall[a].fetch

-----------------------------------------------------------------------------
(* Properties of the stream decoder (SpecStream) *)

IsPrefix(a, b) == Len(a) <= Len(b) /\ SubSeq(b, 1, Len(a)) = a

FrameIndexes == 1..Len(sent.frames)

\* The body of the Response the decoder reads.
ResponseBody == IF mode = "transport" THEN TransportBody ELSE ServerPayload

\* The events of the frames written, in order, error and malformed frames
\* having none.
RECURSIVE ResultEvents(_)
ResultEvents(frames) ==
    IF frames = <<>> THEN <<>>
    ELSE (IF Head(frames) \in {"working", "completed"}
          THEN <<StatusEvent(Head(frames))>> ELSE <<>>)
         \o ResultEvents(Tail(frames))

\* C2: once the decoder has handled a well-formed frame whose error member
\* is populated, the sequence has failed with the RpcError made of that
\* frame's code, message and data, and no later frame has been handled.
C2_ErrorFrameTerminates ==
    \A i \in FrameIndexes :
        (mode = "direct" /\ sent.frames[i] = "error" /\ Len(handled) >= i)
            => /\ spc = "failed"
               /\ streamError = RpcError(TaskNotFound.code, <<TaskNotFound.message>>,
                                         TaskNotFound.data)
               /\ Len(handled) = i
               /\ yielded = ResultEvents(SubSeq(sent.frames, 1, i - 1))

\* C3: sendTaskSubscribe through _makeHttpRequest against a server whose
\* stream carries a "working" and then a "completed" result frame: when the
\* sequence has ended the consumer has received exactly these two events in
\* this order.
C3_SubscribeTwoFrames ==
    (mode = "transport" /\ sent.frames = <<"working", "completed">> /\ spc = "done")
        => yielded = <<StatusEvent("working"), StatusEvent("completed")>>

\* The events the decoder yields when the whole body is one chunk.
RECURSIVE EventsOf(_)
EventsOf(ls) ==
    IF ls = <<>> THEN <<>>
    ELSE LET o == HandleMessage(Head(ls)) IN
         IF o.kind = "yield" THEN <<o.event>> \o EventsOf(Tail(ls))
         ELSE IF o.kind = "throw" THEN <<>>
         ELSE EventsOf(Tail(ls))

WholeChunkEvents(body) == EventsOf(TakeChunk(<<>>, body).lines)

\* The part of the body the decoder has read.
Received == SubSeq(ResponseBody, 1, Len(ResponseBody) - Len(wire))

\* C4: however the body is cut into chunks, the events yielded so far are
\* the first events of the one-chunk decoding of the part of the body that
\* has been read, and when the sequence has ended they are all of them.
C4_ChunkingInvariant ==
    spc \in {"reading", "suspended", "done", "returned"}
        => /\ IsPrefix(yielded, WholeChunkEvents(Received))
           /\ spc = "done" => yielded = WholeChunkEvents(Received)

\* A body of three frames with CRLF line ends has been decoded to its end
\* from chunks cut inside a frame, between the line breaks of a delimiter
\* and between a carriage return and its line feed.
C4_Witness ==
    /\ mode = "direct" /\ spc = "done" /\ wire = <<>>
    /\ sent.eol = <<CR, LF>> /\ Len(sent.frames) = 3
    /\ cuts.frame /\ cuts.delimiter /\ cuts.crlf
    /\ Len(yielded) >= 2

OneBadAmongResults ==
    /\ mode = "direct"
    /\ Cardinality({i \in FrameIndexes : sent.frames[i] = "bad"}) = 1
    /\ \A i \in FrameIndexes : sent.frames[i] \in {"working", "completed", "bad"}

\* C5: in a stream of result frames with one frame that does not parse, the
\* sequence does not fail on a frame, ends only when the stream has closed,
\* and when the whole stream has been read has yielded the events of all the
\* result frames in order.
C5_BadFrameSkipped ==
    OneBadAmongResults
        => /\ spc = "failed" => streamError = ReadError
           /\ IsPrefix(yielded, ResultEvents(sent.frames))
           /\ (spc = "done" /\ wire = <<>>)
                  => yielded = ResultEvents(sent.frames)

\* A malformed frame between two result frames has been passed over and
\* both events have been yielded.
C5_Witness ==
    /\ OneBadAmongResults /\ spc = "done" /\ wire = <<>>
    /\ Len(sent.frames) = 3 /\ sent.frames[2] = "bad"
    /\ Len(yielded) = 2
    /\ \E i \in 1..Len(handled) : handled[i].why = "caught"

RECURSIVE YieldsOf(_)
YieldsOf(hs) ==
    IF hs = <<>> THEN <<>>
    ELSE (IF Head(hs).kind = "yield" THEN <<Head(hs).event>> ELSE <<>>)
         \o YieldsOf(Tail(hs))

\* The messages the part of the body read so far holds complete, that is,
\* followed by their blank line.
CompleteMessages == Len(Split(RemoveCR(Received))) - 1

Ended == spc \in {"done", "returned", "failed"}

Parses(f)     == f # "bad"
VersionOk(f)  == f \in {"working", "completed", "error", "neither", "nullResult"}
HasError(f)   == f = "error"
HasResult(f)  == f \in {"working", "completed", "version"}

\* C19: the decoder has yielded an event for a frame exactly when the frame
\* parses, has the version tag "2.0", no error and a result that is present
\* and not null, and the event is that result; a frame with neither result
\* nor error or with a null result has been skipped, and the sequence has
\* not failed on it.
C19_YieldIffValidResult ==
    mode = "direct"
        => /\ Len(handled) <= Len(sent.frames)
           /\ \A i \in 1..Len(handled) :
                  LET f == sent.frames[i] IN
                  /\ (handled[i].kind = "yield")
                         <=> (Parses(f) /\ VersionOk(f) /\ ~HasError(f) /\ HasResult(f))
                  /\ handled[i].kind = "yield" => handled[i].event = StatusEvent(f)
                  /\ f \in {"neither", "nullResult"}
                         => /\ handled[i].kind = "skip"
                            /\ handled[i].error = NoError
           /\ spc = "failed" => streamError \in {ReadError, StreamNotEstablished}

\* A frame with a null result between two result frames has been skipped
\* and the stream has been decoded to its end.
C19_Witness ==
    /\ mode = "direct" /\ spc = "done" /\ wire = <<>>
    /\ sent.frames = <<"working", "nullResult", "working">>
    /\ handled[2].why = "null result"
    /\ Len(yielded) = 2

C21_PullBased ==
    [][ /\ spc' = "created" =>
              /\ streamCall'.request = NoRequest
              /\ sentIds' = <<>>
              /\ wire' = <<>>
        /\ Len(wire') < Len(wire) => spc = "reading" /\ lines = <<>>
        /\ spc \in {"suspended", "returned", "done", "failed"} => wire' = wire
        /\ spc' = "reading" => lines' = <<>>
        /\ Split(buffer') = <<buffer'>> ]_vars

\* The generator is suspended at a yield with messages of the current chunk
\* still to handle, a partly received frame in the buffer and more of the
\* stream to come.
C21_Witness ==
    /\ spc = "suspended"
    /\ lines # <<>>
    /\ buffer # <<>>
    /\ wire # <<>>
    /\ Len(yielded) = 1

-----------------------------------------------------------------------------
(* Properties of the single round trips (SpecRpc) *)

Finished(call) == call.pc \in {"resolved", "rejected"}

\* The reply is a failure status whose body is an error envelope.
FailureWithEnvelope(reply) ==
    /\ reply.kind = "http" /\ ~AxiosResolves(reply)
    /\ reply.data.type = "object" /\ reply.data.error.kind = "object"

\* C6: an operation answered with a non-success status and an error
\* envelope {error:{code, message}} fails with an RpcError whose code and
\* message are the body's code and message.
C6_HttpFailureEnvelope ==
    \A c \in RpcCallIds :
        (Finished(rpcCall[c]) /\ FailureWithEnvelope(rpcCall[c].reply))
            => /\ rpcCall[c].pc = "rejected"
               /\ rpcCall[c].error.name = "RpcError"
               /\ rpcCall[c].error.code = rpcCall[c].reply.data.error.code
               /\ rpcCall[c].error.message = <<rpcCall[c].reply.data.error.message>>

\* C7: whenever the server supplied an error envelope, in a response of any
\* status or in a streamed frame, the error surfaced has the server's code,
\* message and data.
C7_ErrorVerbatim ==
    /\ \A c \in RpcCallIds :
           (/\ Finished(rpcCall[c])
            /\ rpcCall[c].reply.kind = "http"
            /\ rpcCall[c].reply.data.type = "object"
            /\ rpcCall[c].reply.data.error.kind = "object")
               => rpcCall[c].error =
                      RpcError(rpcCall[c].reply.data.error.code,
                               <<rpcCall[c].reply.data.error.message>>,
                               rpcCall[c].reply.data.error.data)
    /\ \A i \in 1..Len(handled) :
           handled[i].error.name = "RpcError" => streamError = handled[i].error

\* C8: a transport failure without a structured error body (no response at
\* all, or a non-success status whose body is not an error envelope) is
\* surfaced with code -32603.
C8_TransportFailureCode ==
    \A c \in RpcCallIds :
        (/\ Finished(rpcCall[c])
         /\ \/ rpcCall[c].reply.kind = "noResponse"
            \/ /\ rpcCall[c].reply.kind = "http"
               /\ ~AxiosResolves(rpcCall[c].reply)
               /\ ~FailureWithEnvelope(rpcCall[c].reply))
            => /\ rpcCall[c].pc = "rejected"
               /\ rpcCall[c].error.code = InternalError

\* The call was answered with a 2xx response.
Answered2xx(call) == Finished(call) /\ AxiosResolves(call.reply)

\* C15: an operation answered with a 2xx response whose body is not JSON,
\* is not an object or has a version tag other than "2.0" fails with an
\* RpcError of code -32603 and returns no result.
C15_MalformedResponse ==
    \A c \in RpcCallIds :
        (/\ Answered2xx(rpcCall[c])
         /\ \/ rpcCall[c].reply.data.type # "object"
            \/ rpcCall[c].reply.data.jsonrpc # "2.0")
            => /\ rpcCall[c].pc = "rejected"
               /\ rpcCall[c].error.name = "RpcError"
               /\ rpcCall[c].error.code = InternalError
               /\ rpcCall[c].result = ResultAbsent

\* One operation has failed on a body that is not JSON and another on a
\* response that carries a result under the version tag "1.0".
C15_Witness ==
    \E a, b \in RpcCallIds :
        /\ rpcCall[a].pc = "rejected" /\ rpcCall[a].reply = Http(200, TextData)
        /\ rpcCall[b].pc = "rejected" /\ AxiosResolves(rpcCall[b].reply)
        /\ rpcCall[b].reply.data.jsonrpc = "1.0"
        /\ rpcCall[b].reply.data.result = TaskT1
        /\ rpcCall[b].error.code = InternalError

\* C16: an operation answered with a 2xx response that is an object with
\* the version tag "2.0", no error and no result (or a null result) resolves
\* with null.
C16_NoResultIsNull ==
    \A c \in RpcCallIds :
        (/\ Answered2xx(rpcCall[c])
         /\ rpcCall[c].reply.data.type = "object"
         /\ rpcCall[c].reply.data.jsonrpc = "2.0"
         /\ rpcCall[c].reply.data.error.kind = "absent"
         /\ rpcCall[c].reply.data.result.kind \in {"absent", "null"})
            => /\ rpcCall[c].pc = "resolved"
               /\ rpcCall[c].result = ResultNull
               /\ rpcCall[c].error = NoError

\* One operation has resolved with null on a response without a result
\* member and another on a response whose result is null.
C16_Witness ==
    \E a, b \in RpcCallIds :
        /\ rpcCall[a].pc = "resolved" /\ rpcCall[a].reply.data.result = ResultAbsent
        /\ rpcCall[a].result = ResultNull
        /\ rpcCall[b].pc = "resolved" /\ rpcCall[b].reply.data.result = ResultNull
        /\ rpcCall[b].result = ResultNull

\* C9: no two request envelopes posted by the client carry the same id.
C9_UniqueRequestIds ==
    \A i, j \in 1..Len(sentIds) : i # j => sentIds[i] # sentIds[j]

TransportFailed(c) ==
    \/ rpcCall[c].reply.kind = "noResponse"
    \/ /\ rpcCall[c].reply.kind = "http"
       /\ rpcCall[c].reply.status \notin 200..299

\* C23: the client never retries.  The number of requests posted is the
\* number of calls made, whatever their outcome, and a call whose request
\* met a transport failure has been rejected with an RpcError.
C23_NeverRetries ==
    /\ Len(sentIds) = Cardinality({c \in RpcCallIds : rpcCall[c].pc # "idle"})
    /\ \A c \in RpcCallIds :
           TransportFailed(c) =>
               /\ rpcCall[c].pc = "rejected"
               /\ rpcCall[c].error.name = "RpcError"
               /\ rpcCall[c].result = ResultAbsent

\* Two calls of getTask failed, one without an answer and one on a 500,
\* and two requests were posted.
C23_Witness ==
    /\ rpcCall[1].op = "getTask"
    /\ rpcCall[2].op = "getTask"
    /\ rpcCall[1].reply.kind = "noResponse"
    /\ rpcCall[2].reply.status = 500
    /\ Len(sentIds) = 2

-----------------------------------------------------------------------------
(* Properties of the round trips against an agent (SpecServer) *)

\* The body answered to call c carries the result member r and no error.
AnsweredResult(c, r) ==
    /\ rpcCall[c].reply.kind = "http"
    /\ rpcCall[c].reply.status = 200
    /\ rpcCall[c].reply.data.result = r
    /\ rpcCall[c].reply.data.error = ErrorAbsent

\* C24 as stated: whenever the body answered to a sendTask is exactly
\* {result: {id: "t1", status: "submitted"}}, or any body with a result
\* object, the call returns that object.
C24_ResultReturnedAsStated ==
    \A c \in RpcCallIds :
        \A id \in TaskIds, st \in ServerStatuses :
            (rpcCall[c].op = "sendTask" /\ AnsweredResult(c, TaskJson(id, st))) =>
                /\ rpcCall[c].pc = "resolved"
                /\ rpcCall[c].result = TaskJson(id, st)

\* C24: a call answered with an envelope that carries the version tag
\* "2.0", no error and a result object returns that object unchanged;
\* sendTask answered with the task t1 in status submitted returns it.
C24_ResultReturned ==
    \A c \in RpcCallIds :
        \A r \in {TaskJson(id, st) : id \in TaskIds, st \in ServerStatuses}
                  \cup {ConfigJson(p) : p \in PushConfigs} :
            (AnsweredResult(c, r) /\ rpcCall[c].reply.data.jsonrpc = "2.0") =>
                /\ rpcCall[c].pc = "resolved"
                /\ rpcCall[c].result = r
                /\ rpcCall[c].error = NoError

\* sendTask has returned the task t1 in status submitted.
C24_Witness ==
    \E c \in RpcCallIds :
        /\ rpcCall[c].op = "sendTask"
        /\ rpcCall[c].pc = "resolved"
        /\ rpcCall[c].result = TaskT1
        /\ AnsweredResult(c, TaskT1)

\* The values of the client's TaskState.
KnownStates ==
    {"submitted", "working", "input-required", "completed", "canceled", "failed"}

\* C25: when the agent reports a task in a status that is none of the
\* client's TaskState values, the task the call returns has the status
\* "unknown".
C25_UnknownFallback ==
    \A c \in RpcCallIds :
        \A id \in TaskIds, st \in ServerStatuses \ KnownStates :
            (/\ rpcCall[c].pc = "resolved"
             /\ AnsweredResult(c, TaskJson(id, st))) =>
                rpcCall[c].result = TaskJson(id, "unknown")

Returned(c, op) == rpcCall[c].op = op /\ rpcCall[c].pc = "resolved"

Answered(c) == rpcCall[c].pc \in {"resolved", "rejected"}

\* The agent stored the config of set call s and no other config for the
\* same task before it answered call g.
LatestSetBefore(s, g) ==
    /\ rpcCall[s].op = "setTaskPushNotification"
    /\ Answered(s)
    /\ rpcCall[s].seen <= rpcCall[g].seen
    /\ \A o \in RpcCallIds \ {s} :
           ~ /\ rpcCall[o].op = "setTaskPushNotification"
             /\ Answered(o)
             /\ TaskIdOf(rpcCall[o].params) = TaskIdOf(rpcCall[s].params)
             /\ rpcCall[s].seen < rpcCall[o].seen
             /\ rpcCall[o].seen <= rpcCall[g].seen

-----------------------------------------------------------------------------
(* Properties of the requests posted (SpecRequests) *)

\* The method names of the wire protocol, operation by operation.
WireMethod ==
    [sendTask                |-> "tasks/send",
     getTask                 |-> "tasks/get",
     cancelTask              |-> "tasks/cancel",
     sendTaskSubscribe       |-> "tasks/sendSubscribe",
     resubscribeTask         |-> "tasks/resubscribe",
     setTaskPushNotification |-> "tasks/pushNotification/set",
     getTaskPushNotification |-> "tasks/pushNotification/get"]

\* The envelope carries the version tag, the method of op and params.
WellFormedRequest(body, op, params) ==
    /\ body.jsonrpc = "2.0"
    /\ body.method = WireMethod[op]
    /\ body.params = params

\* C22: every request posted carries the version tag "2.0", the method
\* name the wire protocol fixes for the operation called and the caller's
\* params as they were passed; a subscribe operation asks for an event
\* stream and every other operation for a single JSON result.
C22_MethodsAndAccept ==
    /\ \A c \in RpcCallIds :
           rpcCall[c].pc # "idle" =>
               /\ WellFormedRequest(rpcCall[c].body, rpcCall[c].op, rpcCall[c].params)
               /\ rpcCall[c].headers.accept = "application/json"
    /\ streamCall.request # NoRequest =>
           /\ WellFormedRequest(streamCall.request.body, streamCall.op,
                                streamCall.params)
           /\ streamCall.request.headers.accept = "text/event-stream"

\* cancelTask and another operation have posted with different params and
\* the subscription has posted too.
C22_Witness ==
    /\ rpcCall[1].op = "cancelTask"
    /\ rpcCall[2].pc # "idle"
    /\ rpcCall[2].op # "cancelTask"
    /\ rpcCall[1].params # rpcCall[2].params
    /\ streamCall.request # NoRequest

-----------------------------------------------------------------------------
(* Properties of the page (SpecApp) *)

\* Confirm is clicked in this step.
ConfirmClicked ==
    \E k \in ConfirmCallIds : confirmCall[k].pc = "idle" /\ confirmCall'[k].pc # "idle"

\* C29: Reject cancels the transaction.  A status that is idle, as it is
\* once handleRejectTransaction has run, stays idle in every step but a
\* click on Confirm, also while a confirmation started earlier awaits the
\* wallet.
C29_RejectCancels ==
    [][ transactionStatus.status = "idle" =>
            (transactionStatus'.status = "idle" \/ ConfirmClicked) ]_vars

-----------------------------------------------------------------------------
(* Properties of the hardware wallet (SpecWallet) *)

\* C30: a wallet that says it is connected has both addresses and both
\* device ids.
C30_ConnectedHasIds ==
    isConnected =>
        /\ address # Null
        /\ evm_address # Null
        /\ connectId # Null
        /\ deviceId # Null


\* C31: a connect() that was in flight when disconnect() ran does not put
\* the wallet back into the connected state when it returns.
C31_StaleConnectStaysOut ==
    [][\A c \in ConnectCallIds :
           (connectCall[c].disconnected /\ connectCall[c].pc = "evm"
                /\ connectCall'[c].pc = "returned")
               => ~isConnected' /\ address' = Null]_vars

\* C32: a connect() that fails while no other connect() has been called and
\* no disconnect() ran leaves the five fields as it found them.
C32_FailedConnectLeavesFields ==
    [][\A c \in ConnectCallIds :
           (connectCall[c].pc # "thrown" /\ connectCall'[c].pc = "thrown"
                /\ ~connectCall[c].disconnected
                /\ \A d \in ConnectCallIds \ {c} : connectCall[d].pc = "idle")
               => WalletFields' = connectCall[c].before]_vars

-----------------------------------------------------------------------------
(* Properties of the AI chat (SpecChat) *)

\* C35: the transaction state of the chat shows 'completed' only when the
\* wallet call started by the click it stems from has resolved, and 'failed'
\* only when that call was rejected.
C35_StatusFollowsWallet ==
    /\ transaction.status = "completed"
           => confirmCall[transaction.click].outcome = "resolved"
    /\ transaction.status = "failed"
           => confirmCall[transaction.click].outcome = "rejected"

-----------------------------------------------------------------------------
(* Properties of the sign operations (SpecSign) *)

\* C33: signSuiTransaction is never handed a null connectId or deviceId,
\* whatever connect() and disconnect() did while the operation was awaiting.
C33_SignNeverGetsNullIds ==
    signCall.connectId # Null /\ signCall.deviceId # Null

\* The operation found an id gone after its build, and threw.
C33_Witness ==
    /\ signCall.built
    /\ signCall.error = "Device connection information is missing"
    /\ signCall.connectId = "none"

\* C34: a sign operation called while the wallet is not connected throws
\* "Wallet not connected", having constructed no Transaction and handed
\* nothing to the device, and leaves the fields of the wallet as they were.
C34_NotConnectedRefused ==
    [][(signCall.pc \in {"idle", "returned", "thrown"}
            /\ signCall' # signCall
            /\ (~isConnected \/ address = Null))
           => /\ signCall'.pc = "thrown"
              /\ signCall'.error = "Wallet not connected"
              /\ ~signCall'.built
              /\ signCall'.connectId = "none"
              /\ signCall'.deviceId = "none"
              /\ WalletFields' = WalletFields]_vars

\* signAndExecuteSuiTransaction has been refused for want of a connection.
C34_Witness ==
    /\ signCall.error = "Wallet not connected"
    /\ signCall.variant = "signAndExecuteSuiTransaction"
    /\ ~isConnected

-----------------------------------------------------------------------------
(* Properties of the cache of trading pairs (SpecPairs) *)

\* Call c is a refresh that ends in this step.
RefreshEnds(c) ==
    pairsCall[c].pc = "ticker" /\ pairsCall'[c].pc = "returned"

\* C36: a cache that holds pairs keeps holding pairs, and a refresh that
\* fails or obtains no pair leaves the cache and lastFetchTime as they were.
C36_CacheNeverEmptied ==
    [][/\ tradingPairsCache.keys # {} => tradingPairsCache'.keys # {}
       /\ \A c \in PairsCallIds :
              (RefreshEnds(c) /\ pairsCall'[c].result.keys = {})
                  => /\ tradingPairsCache' = tradingPairsCache
                     /\ lastFetchTime' = lastFetchTime]_vars

\* The cache holds pairs and a later refresh has come back with none.
C36_Witness ==
    /\ tradingPairsCache.keys # {}
    /\ \E c \in PairsCallIds :
           /\ pairsCall[c].pc = "returned"
           /\ pairsCall[c].fetched
           /\ pairsCall[c].result.keys = {}
           /\ pairsCall[c].now > lastFetchTime

\* C37: a call made while the cache holds pairs and is less than 60000 ms old
\* returns the cache without calling the network; a call goes to the network
\* only when the cache is empty or at least 60000 ms old.
C37_FreshCacheServed ==
    [][\A c \in PairsCallIds :
           (pairsCall[c].pc = "idle" /\ pairsCall'[c].pc # "idle")
               => IF tradingPairsCache.keys # {} /\ now - lastFetchTime < 60000
                  THEN /\ pairsCall'[c].pc = "returned"
                       /\ pairsCall'[c].result = tradingPairsCache
                       /\ ~pairsCall'[c].fetched
                       /\ tradingPairsCache' = tradingPairsCache
                  ELSE pairsCall'[c].pc = "pools" /\ pairsCall'[c].fetched]_vars

\* A call was served from a cache 59999 ms old.
C37_Witness ==
    \E c \in PairsCallIds :
        /\ pairsCall[c].pc = "returned"
        /\ ~pairsCall[c].fetched
        /\ pairsCall[c].result.keys # {}
        /\ pairsCall[c].now - lastFetchTime = 59999

\* C38: lastFetchTime never decreases, and the cache holds the pairs of the
\* refresh that started last among those that obtained pairs.
C38_LatestRefreshWins ==
    [][/\ lastFetchTime' >= lastFetchTime
       /\ \A c \in PairsCallIds :
              (pairsCall'[c].pc = "returned" /\ pairsCall'[c].fetched
                   /\ pairsCall'[c].result.keys # {})
                  => pairsCall'[c].now <= pairsCall'[tradingPairsCache'.by].now]_vars

-----------------------------------------------------------------------------
(* Properties of the analysis (SpecAnalysis) *)

\* C39: the score of an analysis is an integer in 0..10, the recommendation
\* is the one of the thresholds 8, 6, 4, 2, and transactionType is 'buy'
\* exactly when the score is at least 5, so that it is 'buy' for Buy and
\* Strong Buy and 'sell' for Sell and Strong Sell.
C39_ScoreAndAdvice ==
    analysis.pc = "returned" =>
        /\ analysis.score.kind = "fin"
        /\ analysis.score.val \in 0..10
        /\ analysis.recommendation =
               (IF analysis.score.val >= 8 THEN "Strong Buy"
                ELSE IF analysis.score.val >= 6 THEN "Buy"
                ELSE IF analysis.score.val >= 4 THEN "Hold"
                ELSE IF analysis.score.val >= 2 THEN "Sell"
                ELSE "Strong Sell")
        /\ analysis.transactionType = "buy" <=> analysis.score.val >= 5
        /\ analysis.recommendation \in {"Buy", "Strong Buy"}
               => analysis.transactionType = "buy"
        /\ analysis.recommendation \in {"Sell", "Strong Sell"}
               => analysis.transactionType = "sell"

====
